---- MODULE Spec2Model ----
(***************************************************************************)
(* bettercppsax: the continuation stack of SaxParser, the ParseResult      *)
(* protocol interpreted by inner_parser::ParseToken, the library           *)
(* continuations (ParseString, ParseBool, ParseNumber, SkipNextElement,    *)
(* ParseObject, ParseList) and the top-level ParseJson.                    *)
(***************************************************************************)
EXTENDS Integers, Sequences, FiniteSets, TLC

\* Bounds of the model.
MaxTokens == 5      \* tokens the reader emits in one parse
MaxDepth == 2       \* nesting depth of the input document
MaxStack == 4       \* entries of parser_stack
MaxReplay == 2      \* recursive ParseToken calls for one token

VARIABLES
    parser_stack,   \* SaxParser::parser_stack, bottom first; each entry a closure
    res,            \* ParseJson's local std::optional<std::string> res
    pc,             \* where control is
    token,          \* the JSONToken of the ParseToken call in progress
    open,           \* reader: the containers opened and not yet closed
    rd,             \* reader: what the document grammar allows next
    n,              \* number of tokens the reader has emitted
    schema,         \* "any": user code returns any ParseResult; "lib": only library
                    \* combinators; "doc": the key handler RootHandler; "unit": no parse
    nextId,         \* identity given to the next closure pushed
    last,           \* history: the last delivery (token number, receiver, outcome;
                    \* the token itself when the delivery is part of a replay)
    prev,           \* history: the delivery before the last one
    chain,          \* history: user continuations that received the current token
    retired,        \* history: ids of closures that returned ParserDone
    deferred,       \* history: ids of closures that returned NewParser / NewParser_ReplayCurrent
    calls,          \* history: messages on_error was invoked with
    ret,            \* what the last callback returned to the reader
    result,         \* what ParseJson returned
    ub,             \* top() was called on an empty parser_stack
    mem,            \* the objects the continuations write to: slot 0 is the caller's
                    \* object, slot k the object held by the closure with id k
    input,          \* the document that the reader reads, as its tokens (<<>>: any)
    unit,           \* a continuation called on its own: target type, token, result
    on_error        \* SaxParser::on_error: the caller's callback, or the default

vars == <<parser_stack, res, pc, token, open, rd, n, schema, nextId, last, prev,
          chain, retired, deferred, calls, ret, result, ub, mem, input, unit, on_error>>

----------------------------------------------------------------------------
(* Numbers *)

\* An int64_t or uint64_t value, and the value of an integral target: sign and
\* magnitude, the magnitude as three limbs in base 10^9, most significant first.
Base == 1000000000

Num(neg, mag) == [neg |-> neg, mag |-> mag]

\* The number x, for |x| < 10^9.
Whole(x) == IF x < 0 THEN Num(TRUE, <<0, 0, 0 - x>>) ELSE Num(FALSE, <<0, 0, x>>)

MagLess(x, y) ==
    \/ x[1] < y[1]
    \/ x[1] = y[1] /\ x[2] < y[2]
    \/ x[1] = y[1] /\ x[2] = y[2] /\ x[3] < y[3]

NumLess(x, y) ==
    IF x.neg # y.neg THEN x.neg
    ELSE IF x.neg THEN MagLess(y.mag, x.mag) ELSE MagLess(x.mag, y.mag)

\* x - y for magnitudes x >= y.
MagSub(x, y) ==
    LET c == x[3] - y[3]
        bc == IF c < 0 THEN 1 ELSE 0
        b == x[2] - y[2] - bc
        bb == IF b < 0 THEN 1 ELSE 0
    IN  <<x[1] - y[1] - bb, b + bb * Base, c + bc * Base>>

\* x * 10 + d; from 10^20 on, beyond every 64-bit range, the magnitude is kept as it is.
MagMul10Add(x, d) ==
    IF x[1] >= 100 THEN x
    ELSE <<x[1] * 10 + x[2] \div (Base \div 10),
           (x[2] % (Base \div 10)) * 10 + x[3] \div (Base \div 10),
           (x[3] % (Base \div 10)) * 10 + d>>

\* 2^64
TwoTo64 == <<18, 446744073, 709551616>>

\* Conversion of an int64_t to uint64_t: modulo 2^64.
ToUint64(x) == IF x.neg THEN Num(FALSE, MagSub(TwoTo64, x.mag)) ELSE x

\* A double or float value: mant * 10^exp, where mant has nine digits, or is 0.
Dec(neg, mant, exp) == [neg |-> neg, mant |-> mant, exp |-> exp]

RECURSIVE Normal(_)
Normal(d) ==
    IF d.mant = 0 THEN Dec(FALSE, 0, 0)
    ELSE IF d.mant < Base \div 10 THEN Normal(Dec(d.neg, d.mant * 10, d.exp - 1))
    ELSE d

DecMagLess(x, y) ==
    IF x.mant = 0 THEN y.mant # 0
    ELSE y.mant # 0 /\ (x.exp < y.exp \/ (x.exp = y.exp /\ x.mant < y.mant))

DecLess(x, y) ==
    IF x.neg # y.neg THEN x.neg
    ELSE IF x.neg THEN DecMagLess(y, x) ELSE DecMagLess(x, y)

\* hi * 10^exp + lo * 10^(exp - 9) with nine digits: digits of lo move into hi.
RECURSIVE ShiftIn(_, _, _, _)
ShiftIn(neg, hi, lo, exp) ==
    IF hi >= Base \div 10 THEN Dec(neg, hi, exp)
    ELSE ShiftIn(neg, hi * 10 + lo \div (Base \div 10), (lo % (Base \div 10)) * 10, exp - 1)

\* Conversion of an int64_t or uint64_t to double or float; digits after the ninth
\* are dropped.
ToFloating(x) ==
    LET m == x.mag IN
    IF m[1] # 0 THEN ShiftIn(x.neg, m[1], m[2], 18)
    ELSE IF m[2] # 0 THEN ShiftIn(x.neg, m[2], m[3], 9)
    ELSE Normal(Dec(x.neg, m[3], 0))

----------------------------------------------------------------------------
(* Tokens *)

JSONTokenType == {"null", "boolean", "number_integer", "number_unsigned",
                  "number_float", "string", "start_object", "end_object",
                  "start_array", "end_array", "key"}

monostate == <<>>

JSONToken(type, value) == [type |-> type, value |-> value]

NoToken == JSONToken("none", monostate)

\* Payloads the reader draws from. Strings are sequences of characters.
IntPayloads == {Whole(1), Whole(300)}
UserFns == {1}        \* the user-written continuations
StringPayloads == {<<"x">>, <<"7">>}
KeyPayloads == {<<"a">>, <<"b">>}

ScalarTokens ==
    {JSONToken("null", monostate), JSONToken("boolean", TRUE),
     JSONToken("number_unsigned", Whole(2)),
     JSONToken("number_float", Normal(Dec(FALSE, 1, 0)))}
    \cup {JSONToken("number_integer", v) : v \in IntPayloads}
    \cup {JSONToken("string", s) : s \in StringPayloads}

----------------------------------------------------------------------------
(* ParseResult and its constructors *)

ParseResult(type, error, new_parser) ==
    [type |-> type, error |-> error, new_parser |-> new_parser]

KeepParsing == ParseResult("KeepParsing", <<>>, <<>>)

ParserDone == ParseResult("ParserDone", <<>>, <<>>)

\* Faulty variant: an Error that carries no message.
ParseError_NoMessage(error) == ParseResult("Error", <<>>, <<>>)

ParseError(error) == ParseResult("Error", <<error>>, <<>>)

NewParser(parser) == ParseResult("NewParser", <<>>, <<parser>>)

NewParserRepeatToken(parser) ==
    ParseResult("NewParser_ReplayCurrent", <<>>, <<parser>>)

----------------------------------------------------------------------------
(* Closures: the lambdas stored in std::function<ParseResult(const JSONToken&)> *)

\* fn: which lambda; ty: target type (scalars) or item kind (lists);
\* k: which user function; first, depth, index: the lambda's mutable captures;
\* target: the path in mem of the object the factory was given (<<>>: an object
\* that mem does not hold).
Closure(fn, ty, k) ==
    [fn |-> fn, ty |-> ty, k |-> k, first |-> TRUE, depth |-> 0, index |-> 0, id |-> 0,
     target |-> <<>>]

\* The result r of a factory, for the target (scalar, object or collection) at path.
At(r, path) == [r EXCEPT !.new_parser = <<[r.new_parser[1] EXCEPT !.target = path]>>]

ParseString == NewParser(Closure("ParseString", "string", 0))

ParseBool == NewParser(Closure("ParseBool", "bool", 0))

ParseNumber(T) == NewParser(Closure("ParseNumber", T, 0))

ParseScalar(T) ==
    IF T = "string" THEN ParseString
    ELSE IF T = "bool" THEN ParseBool
    ELSE ParseNumber(T)

SkipNextElement == NewParser(Closure("SkipNextElement", "", 0))

ParseObject == NewParser(Closure("ParseObject", "", 0))

\* item: "scalar" (get_item_parser_func = ParseScalar) or "object" (ParseObject per element)
ParseList(item) == NewParser(Closure("ParseList", item, 0))

UserParser(k) == Closure("User", "", k)

\* ParseRGB of the example: the continuation for a color in any of its forms.
ParseRGB == NewParser(Closure("ParseRGB", "", 0))

----------------------------------------------------------------------------
(* Numeric targets *)

IntegralTypes == {"int8", "uint8", "int16", "uint16", "int32", "uint32", "int64", "uint64"}

FloatingTypes == {"float", "double"}

\* The types that satisfy the concept Numeric
NumericTypes == IntegralTypes \cup FloatingTypes

\* Faulty variant: no target type counts as integral.
is_integral_None(T) == FALSE

is_integral(T) == T \in IntegralTypes

is_signed(T) == T \in {"int8", "int16", "int32", "int64", "float", "double"}

\* std::numeric_limits<T>::max() and lowest(); FLT_MAX and DBL_MAX to nine digits.
numeric_limits_max(T) ==
    CASE T = "int8" -> Whole(127)
      [] T = "uint8" -> Whole(255)
      [] T = "int16" -> Whole(32767)
      [] T = "uint16" -> Whole(65535)
      [] T = "int32" -> Num(FALSE, <<0, 2, 147483647>>)
      [] T = "uint32" -> Num(FALSE, <<0, 4, 294967295>>)
      [] T = "int64" -> Num(FALSE, <<9, 223372036, 854775807>>)
      [] T = "uint64" -> Num(FALSE, <<18, 446744073, 709551615>>)
      [] T = "float" -> Dec(FALSE, 340282347, 30)
      [] T = "double" -> Dec(FALSE, 179769313, 300)

numeric_limits_lowest(T) ==
    CASE T = "int8" -> Whole(0 - 128)
      [] T = "int16" -> Whole(0 - 32768)
      [] T = "int32" -> Num(TRUE, <<0, 2, 147483648>>)
      [] T = "int64" -> Num(TRUE, <<9, 223372036, 854775808>>)
      [] T \in {"uint8", "uint16", "uint32", "uint64"} -> Whole(0)
      [] T = "float" -> Dec(TRUE, 340282347, 30)
      [] T = "double" -> Dec(TRUE, 179769313, 300)

\* The type in which `val > limit` is evaluated for an int64_t val and a limit of
\* type T (the usual arithmetic conversions): T of lower rank is promoted to
\* int64_t, uint64_t converts val to uint64_t, a floating T converts val to T.
CommonTypeWithInt64(T) ==
    IF T \in FloatingTypes THEN T ELSE IF T = "uint64" THEN "uint64" ELSE "int64"

\* The same for a uint64_t val: every integral limit is converted to uint64_t.
CommonTypeWithUint64(T) == IF T \in FloatingTypes THEN T ELSE "uint64"

\* The same for a double val: an integral limit is converted to double.
CommonTypeWithDouble(T) == IF T \in FloatingTypes THEN T ELSE "double"

\* Conversion of the 64-bit value or limit x to the common type C.
Converted(x, C) ==
    IF C \in FloatingTypes THEN (IF "mant" \in DOMAIN x THEN x ELSE ToFloating(x))
    ELSE IF C = "uint64" THEN ToUint64(x)
    ELSE x

\* a < b for two values of the common type C.
LessIn(C, a, b) == IF C \in FloatingTypes THEN DecLess(a, b) ELSE NumLess(a, b)

\* val > numeric_limits<T>::max() || val < numeric_limits<T>::lowest(), evaluated in C
OutOfRange(val, T, C) ==
    \/ LessIn(C, Converted(numeric_limits_max(T), C), Converted(val, C))
    \/ LessIn(C, Converted(val, C), Converted(numeric_limits_lowest(T), C))

\* val > numeric_limits<T>::max(), evaluated in C
AboveMax(val, T, C) ==
    LessIn(C, Converted(numeric_limits_max(T), C), Converted(val, C))

\* (T)val for a double val: float keeps 24 bits of mantissa, here seven digits.
FloatingCast(T, val) ==
    IF T = "float" THEN Dec(val.neg, (val.mant \div 100) * 100, val.exp) ELSE val

\* (T)val for a 64-bit integer val that passed the range test.
IntegerCast(T, val) ==
    IF T \in FloatingTypes THEN FloatingCast(T, ToFloating(val))
    ELSE IF T = "uint64" THEN ToUint64(val)
    ELSE val

Digits == {"0", "1", "2", "3", "4", "5", "6", "7", "8", "9"}

DigitVal(ch) ==
    CASE ch = "0" -> 0 [] ch = "1" -> 1 [] ch = "2" -> 2 [] ch = "3" -> 3
      [] ch = "4" -> 4 [] ch = "5" -> 5 [] ch = "6" -> 6 [] ch = "7" -> 7
      [] ch = "8" -> 8 [] ch = "9" -> 9

\* Length of the longest prefix of data, from position i on, made of digits.
RECURSIVE DigitRun(_, _)
DigitRun(data, i) ==
    IF i <= Len(data) /\ data[i] \in Digits THEN 1 + DigitRun(data, i + 1) ELSE 0

\* The magnitude written by the cnt digits of data from position i on.
RECURSIVE DigitsValue(_, _, _)
DigitsValue(data, i, cnt) ==
    IF cnt = 0 THEN <<0, 0, 0>>
    ELSE MagMul10Add(DigitsValue(data, i, cnt - 1), DigitVal(data[i + cnt - 1]))

\* The cnt digits of data from position i on, as a small number (an exponent).
RECURSIVE SmallValue(_, _, _)
SmallValue(data, i, cnt) ==
    IF cnt = 0 THEN 0
    ELSE LET v == SmallValue(data, i, cnt - 1) * 10 + DigitVal(data[i + cnt - 1])
         IN  IF v > 9999 THEN 9999 ELSE v

\* The first nine significant digits of a digit sequence, and how many digits
\* after them were dropped.
RECURSIVE Significant(_, _)
Significant(ds, cnt) ==
    IF cnt = 0 THEN [mant |-> 0, drop |-> 0]
    ELSE LET p == Significant(ds, cnt - 1) IN
         IF p.mant >= Base \div 10 THEN [p EXCEPT !.drop = @ + 1]
         ELSE [p EXCEPT !.mant = @ * 10 + DigitVal(ds[cnt])]

\* T(): the value of a value-initialised T.
DefaultNumber(T) == IF T \in IntegralTypes THEN Whole(0) ELSE Dec(FALSE, 0, 0)

\* The length of the text that std::from_chars reads as a number of type T
\* (ptr - first); 0 when it finds none.
LiteralLen(data, T) ==
    LET neg == is_signed(T) /\ Len(data) > 0 /\ data[1] = "-"
        start == IF neg THEN 2 ELSE 1
        ip == DigitRun(data, start)
        dot == start + ip <= Len(data) /\ data[start + ip] = "."
        fp == IF dot THEN DigitRun(data, start + ip + 1) ELSE 0
        after == start + ip + (IF dot THEN 1 + fp ELSE 0)
        hasE == after <= Len(data) /\ data[after] \in {"e", "E"}
        esign == hasE /\ after + 1 <= Len(data) /\ data[after + 1] \in {"-", "+"}
        es == IF esign THEN after + 2 ELSE after + 1
        ecnt == IF hasE THEN DigitRun(data, es) ELSE 0
    IN  IF T \in IntegralTypes THEN (IF ip = 0 THEN 0 ELSE start + ip - 1)
        ELSE IF ip + fp = 0 THEN 0
        ELSE IF ecnt = 0 THEN after - 1
        ELSE es + ecnt - 1

\* std::from_chars(first, last, value) for an integral T: an optional minus sign
\* (signed T only) and the longest run of digits; what follows the run is left
\* unread. ec is "" for std::errc{}; value is what is stored, if anything is.
from_chars_integral(data, T) ==
    LET neg == is_signed(T) /\ Len(data) > 0 /\ data[1] = "-"
        start == IF neg THEN 2 ELSE 1
        cnt == DigitRun(data, start)
        mag == DigitsValue(data, start, cnt)
        val == Num(neg /\ mag # <<0, 0, 0>>, mag)
    IN  IF cnt = 0 THEN [ec |-> "invalid_argument", value |-> <<>>]
        ELSE IF NumLess(numeric_limits_max(T), val) \/ NumLess(val, numeric_limits_lowest(T))
             THEN [ec |-> "result_out_of_range", value |-> <<>>]
             ELSE [ec |-> "", value |-> <<val>>]

\* std::from_chars for a floating T (chars_format::general): an optional minus
\* sign, digits with an optional point, an optional exponent; what follows is
\* left unread.
from_chars_floating(data, T) ==
    LET neg == Len(data) > 0 /\ data[1] = "-"
        start == IF neg THEN 2 ELSE 1
        ip == DigitRun(data, start)
        dot == start + ip <= Len(data) /\ data[start + ip] = "."
        fp == IF dot THEN DigitRun(data, start + ip + 1) ELSE 0
        after == start + ip + (IF dot THEN 1 + fp ELSE 0)
        hasE == after <= Len(data) /\ data[after] \in {"e", "E"}
        esign == hasE /\ after + 1 <= Len(data) /\ data[after + 1] \in {"-", "+"}
        es == IF esign THEN after + 2 ELSE after + 1
        ecnt == IF hasE THEN DigitRun(data, es) ELSE 0
        emag == SmallValue(data, es, ecnt)
        expo == IF esign /\ data[after + 1] = "-" THEN 0 - emag ELSE emag
        ds == SubSeq(data, start, start + ip - 1)
              \o SubSeq(data, start + ip + 1, start + ip + fp)
        sig == Significant(ds, Len(ds))
        val == Normal(Dec(neg, sig.mant, expo - fp + sig.drop))
    IN  IF ip + fp = 0 THEN [ec |-> "invalid_argument", value |-> <<>>]
        ELSE IF DecLess(numeric_limits_max(T), val) \/ DecLess(val, numeric_limits_lowest(T))
             THEN [ec |-> "result_out_of_range", value |-> <<>>]
             ELSE [ec |-> "", value |-> <<FloatingCast(T, val)>>]

\* Faulty variant: text without a number is read as 0.
from_chars_Lenient(data, T) ==
    LET r == IF T \in IntegralTypes THEN from_chars_integral(data, T)
             ELSE from_chars_floating(data, T)
    IN  IF r.ec = "invalid_argument" THEN [ec |-> "", value |-> <<DefaultNumber(T)>>] ELSE r

\* Faulty variant: text after the number is an error.
from_chars_WholeText(data, T) ==
    LET r == IF T \in IntegralTypes THEN from_chars_integral(data, T)
             ELSE from_chars_floating(data, T)
    IN  IF r.ec = "" /\ LiteralLen(data, T) # Len(data)
        THEN [ec |-> "invalid_argument", value |-> <<>>] ELSE r

from_chars(data, T) ==
    IF is_integral(T) THEN from_chars_integral(data, T) ELSE from_chars_floating(data, T)

----------------------------------------------------------------------------
(* Targets: the objects, fields and collection elements that closures refer to *)

\* The value at path p of v: a path is a slot of mem followed by field names and
\* element indexes.
RECURSIVE Get(_, _)
Get(v, p) == IF p = <<>> THEN v ELSE Get(v[Head(p)], Tail(p))

\* v with the value at path p replaced by x.
RECURSIVE Put(_, _, _)
Put(v, p, x) == IF p = <<>> THEN x ELSE [v EXCEPT ![Head(p)] = Put(v[Head(p)], Tail(p), x)]

\* The object of the end-to-end schema: struct { int32_t id; std::string name;
\* std::vector<std::string> tags; }
DefaultObject == [id |-> Whole(0), name |-> <<>>, tags |-> <<>>]

\* A value-initialised element of a collection whose value_type is ty.
DefaultValue(ty) ==
    IF ty = "string" THEN <<>>
    ELSE IF ty = "bool" THEN FALSE
    ELSE IF ty \in NumericTypes THEN DefaultNumber(ty)
    ELSE DefaultObject

\* The path of the element that collection.emplace_back() returns.
Emplaced(collection) ==
    IF collection = <<>> THEN <<>>
    ELSE Append(collection, Len(Get(mem, collection)) + 1)

\* The object that the lambda of ParseObject hands to the key handler: its capture
\* [object, ...] is by value, so it is the copy that the stored closure holds.
ObjectOf(c) == IF c.target = <<>> THEN <<>> ELSE <<c.id>>

----------------------------------------------------------------------------
(* The lambda bodies.  Each yields the ParseResult, the closure's state       *)
(* after the call (the lambdas are mutable and are called in place), the     *)
(* value it assigned to its target, if it assigned one, and whether it       *)
(* called emplace_back on its target.                                        *)

Out(r, self) == [res |-> r, self |-> self, stored |-> <<>>, emplaced |-> FALSE]

\* target = v; return r
Store(v, r, self) == [Out(r, self) EXCEPT !.stored = <<v>>]

\* Faulty variant: the text is copied, but the continuation asks for more tokens.
ParseStringBody_KeepsParsing(c, t) ==
    IF t.type = "string" THEN Store(t.value, KeepParsing, c)
    ELSE Out(ParseError("Unexpected data type"), c)

ParseStringBody(c, t) ==
    IF t.type = "string" THEN Store(t.value, ParserDone, c)
    ELSE Out(ParseError("Unexpected data type"), c)

\* Faulty variant: a token of another kind resets the target before the error.
ParseBoolBody_ClearsOnMismatch(c, t) ==
    IF t.type = "boolean" THEN Store(t.value, ParserDone, c)
    ELSE Store(FALSE, ParseError("Unexpected data type"), c)

ParseBoolBody(c, t) ==
    IF t.type = "boolean" THEN Store(t.value, ParserDone, c)
    ELSE Out(ParseError("Unexpected data type"), c)

ParseNumberBody(c, t) ==
    LET T == c.ty IN
    IF t.type = "number_integer" THEN
        IF OutOfRange(t.value, T, CommonTypeWithInt64(T))
        THEN Out(ParseError("Number read is out of range for given type"), c)
        ELSE Store(IntegerCast(T, t.value), ParserDone, c)
    ELSE IF t.type = "number_unsigned" THEN
        IF AboveMax(t.value, T, CommonTypeWithUint64(T))
        THEN Out(ParseError("Number read is out of range for given type"), c)
        ELSE Store(IntegerCast(T, t.value), ParserDone, c)
    ELSE IF t.type = "number_float" THEN
        IF is_integral(T)
        THEN Out(ParseError("Can't parse a floating point into an integral type"), c)
        ELSE IF OutOfRange(t.value, T, CommonTypeWithDouble(T))
             THEN Out(ParseError("Number read is out of range for given type"), c)
             ELSE Store(FloatingCast(T, t.value), ParserDone, c)
    ELSE IF t.type = "string" THEN
        LET parsed == from_chars(t.value, T) IN
        IF parsed.ec = "" THEN Store(parsed.value[1], ParserDone, c)
        ELSE Out(ParseError("Failed parsing integer"), c)
    ELSE Out(ParseError("Unexpected token type"), c)

\* Faulty variant: any closing token ends the skip.
SkipNextElementBody_DoneWhenClosing(c, t) ==
    LET depth == IF t.type \in {"start_object", "start_array"} THEN c.depth + 1
                 ELSE IF t.type \in {"end_object", "end_array"} THEN c.depth - 1
                 ELSE c.depth
        self == [c EXCEPT !.depth = depth]
    IN  IF depth < 0
        THEN Out(ParseError("Malformed document while skiping element"), self)
        ELSE IF depth # 0 /\ t.type \notin {"end_object", "end_array"}
             THEN Out(KeepParsing, self) ELSE Out(ParserDone, self)

\* Faulty variant: a negative depth is not tested.
SkipNextElementBody_NoUnderflowTest(c, t) ==
    LET depth == IF t.type \in {"start_object", "start_array"} THEN c.depth + 1
                 ELSE IF t.type \in {"end_object", "end_array"} THEN c.depth - 1
                 ELSE c.depth
        self == [c EXCEPT !.depth = depth]
    IN  IF depth # 0 THEN Out(KeepParsing, self) ELSE Out(ParserDone, self)

SkipNextElementBody(c, t) ==
    LET depth == IF t.type \in {"start_object", "start_array"} THEN c.depth + 1
                 ELSE IF t.type \in {"end_object", "end_array"} THEN c.depth - 1
                 ELSE c.depth
        self == [c EXCEPT !.depth = depth]
    IN  IF depth < 0
        THEN Out(ParseError("Malformed document while skiping element"), self)
        ELSE IF depth # 0 THEN Out(KeepParsing, self) ELSE Out(ParserDone, self)

\* Faulty variant: a replay that the handler asks for is turned into a plain push.
ParseObjectBody_ReplayBecomesPush(c, t, handled) ==
    IF c.first THEN
        LET self == [c EXCEPT !.first = FALSE] IN
        IF t.type = "start_object" THEN Out(KeepParsing, self)
        ELSE Out(ParseError("Expected object start"), self)
    ELSE IF t.type = "end_object" THEN Out(ParserDone, c)
    ELSE IF t.type = "key"
         THEN IF handled.type = "NewParser_ReplayCurrent"
              THEN Out(NewParser(handled.new_parser[1]), c) ELSE Out(handled, c)
    ELSE Out(ParseError("Unexpected element type"), c)

\* Faulty variant: a token that is neither a key nor end_object is passed over.
ParseObjectBody_PassesOverValues(c, t, handled) ==
    IF c.first THEN
        LET self == [c EXCEPT !.first = FALSE] IN
        IF t.type = "start_object" THEN Out(KeepParsing, self)
        ELSE Out(ParseError("Expected object start"), self)
    ELSE IF t.type = "end_object" THEN Out(ParserDone, c)
    ELSE IF t.type = "key" THEN Out(handled, c)
    ELSE Out(KeepParsing, c)

\* handled: what the caller's key handler returns for this key.
ParseObjectBody(c, t, handled) ==
    IF c.first THEN
        LET self == [c EXCEPT !.first = FALSE] IN
        IF t.type = "start_object" THEN Out(KeepParsing, self)
        ELSE Out(ParseError("Expected object start"), self)
    ELSE IF t.type = "end_object" THEN Out(ParserDone, c)
    ELSE IF t.type = "key" THEN Out(handled, c)
    ELSE Out(ParseError("Unexpected element type"), c)

\* get_item_parser_func(target): the item's closure, for the element at path target
get_item_parser_func(item, target) ==
    IF item = "object" THEN At(ParseObject, target).new_parser[1]
    ELSE At(ParseScalar(item), target).new_parser[1]

\* Faulty variant: the element is appended before the first token is looked at.
ParseListBody_EmplacesFirst(c, t) ==
    IF c.first THEN
        LET self == [c EXCEPT !.first = FALSE] IN
        IF t.type # "start_array"
        THEN [Out(ParseError("No open array token for list"), self) EXCEPT !.emplaced = TRUE]
        ELSE Out(KeepParsing, self)
    ELSE IF t.type = "end_array" THEN Out(ParserDone, c)
    ELSE [Out(NewParserRepeatToken(get_item_parser_func(c.ty, Emplaced(c.target))), c)
             EXCEPT !.emplaced = TRUE]

\* Faulty variant: the item's continuation is pushed without replaying the token.
ParseListBody_DefersItem(c, t) ==
    IF c.first THEN
        LET self == [c EXCEPT !.first = FALSE] IN
        IF t.type # "start_array" THEN Out(ParseError("No open array token for list"), self)
        ELSE Out(KeepParsing, self)
    ELSE IF t.type = "end_array" THEN Out(ParserDone, c)
    ELSE [Out(NewParser(get_item_parser_func(c.ty, Emplaced(c.target))), c)
             EXCEPT !.emplaced = TRUE]

ParseListBody(c, t) ==
    IF c.first THEN
        LET self == [c EXCEPT !.first = FALSE] IN
        IF t.type # "start_array" THEN Out(ParseError("No open array token for list"), self)
        ELSE Out(KeepParsing, self)
    ELSE IF t.type = "end_array" THEN Out(ParserDone, c)
    ELSE [Out(NewParserRepeatToken(get_item_parser_func(c.ty, Emplaced(c.target))), c)
             EXCEPT !.emplaced = TRUE]

\* The hexadecimal digits, by value.
HexChars == <<"0", "1", "2", "3", "4", "5", "6", "7", "8", "9", "a", "b", "c", "d", "e", "f">>

HexUpper == <<"0", "1", "2", "3", "4", "5", "6", "7", "8", "9", "A", "B", "C", "D", "E", "F">>

IsHex(ch) == \E i \in 1..16 : ch \in {HexChars[i], HexUpper[i]}

HexOf(ch) == (CHOOSE i \in 1..16 : ch \in {HexChars[i], HexUpper[i]}) - 1

\* The low 24 bits of std::strtol(text, nullptr, 16): the digits up to the first
\* character that is none (for a text without leading space, sign or 0x, and
\* short enough for a long).
RECURSIVE strtol(_, _)
strtol(text, acc) ==
    IF text = <<>> \/ ~IsHex(Head(text)) THEN acc
    ELSE strtol(Tail(text), (acc * 16 + HexOf(Head(text))) % 16777216)

\* The lambda of ParseRGB for the items of the array form, with its counter.
ParseRGBArrayBody(c, t) ==
    IF c.index = 3
    THEN IF t.type = "end_array" THEN Out(ParserDone, c)
         ELSE Out(ParseError("Unexpected type"), c)
    ELSE IF c.index = 0         \* index++ == 0
    THEN Out(NewParserRepeatToken(At(ParseScalar("uint8"), Append(c.target, "r")).new_parser[1]),
             [c EXCEPT !.index = @ + 1])
    ELSE IF c.index + 1 = 1     \* index++ == 1, after the increment of the test before
    THEN Out(NewParserRepeatToken(At(ParseScalar("uint8"), Append(c.target, "g")).new_parser[1]),
             [c EXCEPT !.index = @ + 2])
    ELSE IF c.index + 2 = 2     \* index++ == 2, after two increments
    THEN Out(NewParserRepeatToken(At(ParseScalar("uint8"), Append(c.target, "b")).new_parser[1]),
             [c EXCEPT !.index = @ + 3])
    ELSE Out(ParseError("Should never get here"), [c EXCEPT !.index = @ + 3])

\* The lambda of ParseRGB for the members of the object form; its index is
\* never incremented.
ParseRGBObjectBody(c, t) ==
    IF c.index = 3
    THEN IF t.type = "end_object" THEN Out(ParserDone, c)
         ELSE Out(ParseError("Unexpected type"), c)
    ELSE IF t.type # "key" THEN Out(ParseError("Unexpected token"), c)
    ELSE IF t.value = <<"r">> THEN Out(At(ParseScalar("uint8"), Append(c.target, "r")), c)
    ELSE IF t.value = <<"g">> THEN Out(At(ParseScalar("uint8"), Append(c.target, "g")), c)
    ELSE IF t.value = <<"b">> THEN Out(At(ParseScalar("uint8"), Append(c.target, "b")), c)
    ELSE Out(ParseError("Unexpected value"), c)

\* The outer lambda of ParseRGB: the string form is read here, the other forms
\* get a continuation of their own.
ParseRGBBody(c, t) ==
    IF t.type = "string"
    THEN IF t.value = <<>> \/ Head(t.value) # "#"
         THEN Out(ParseError("Invalid string for color"), c)
         ELSE LET value == strtol(Tail(t.value), 0) IN
              Store([r |-> Whole(value \div 65536), g |-> Whole((value \div 256) % 256),
                     b |-> Whole(value % 256)], ParserDone, c)
    ELSE IF t.type = "start_array"
    THEN Out(At(NewParser(Closure("ParseRGBArray", "", 0)), c.target), c)
    ELSE IF t.type = "start_object"
    THEN Out(At(NewParser(Closure("ParseRGBObject", "", 0)), c.target), c)
    ELSE Out(ParseError("Unexpected token type"), c)

\* A continuation written by the user: it answers as its author chose.
UserBody(c, t, chosen) == Out(chosen, c)

\* parser_stack.top()(token)
Call(c, t, chosen) ==
    CASE c.fn = "ParseString" -> ParseStringBody(c, t)
      [] c.fn = "ParseBool" -> ParseBoolBody(c, t)
      [] c.fn = "ParseNumber" -> ParseNumberBody(c, t)
      [] c.fn = "SkipNextElement" -> SkipNextElementBody(c, t)
      [] c.fn = "ParseObject" -> ParseObjectBody(c, t, chosen)
      [] c.fn = "ParseList" -> ParseListBody(c, t)
      [] c.fn = "User" -> UserBody(c, t, chosen)
      [] c.fn = "ParseRGB" -> ParseRGBBody(c, t)
      [] c.fn = "ParseRGBArray" -> ParseRGBArrayBody(c, t)
      [] c.fn = "ParseRGBObject" -> ParseRGBObjectBody(c, t)

----------------------------------------------------------------------------
(* What user code may answer *)

\* The results of the library's factories, as a key handler returns them.
LibResults ==
    {ParseScalar("string"), ParseScalar("bool"), ParseScalar("uint8"),
     SkipNextElement, ParseObject, ParseList("uint8"), ParseList("object"),
     ParseError("Sending out an error")}

\* Any ParseResult user code can build.
AnyResults ==
    LibResults
    \cup {KeepParsing, ParserDone}
    \cup {NewParser(UserParser(k)) : k \in UserFns}
    \cup {NewParserRepeatToken(UserParser(k)) : k \in UserFns}
    \cup {NewParserRepeatToken(r.new_parser[1]) : r \in {ParseScalar("uint8"), ParseObject}}

\* Faulty variant: the handler takes an unknown key for "name".
RootHandler_OtherIsName(key, object) ==
    IF key = <<"i", "d">> THEN At(ParseScalar("int32"), Append(object, "id"))
    ELSE IF key = <<"t", "a", "g", "s">> THEN At(ParseList("string"), Append(object, "tags"))
    ELSE At(ParseScalar("string"), Append(object, "name"))

\* The key handler of the end-to-end schema, written as the handlers of the tests
\* and of the example are: a field per key, SkipNextElement for any other key.
RootHandler(key, object) ==
    IF key = <<"i", "d">> THEN At(ParseScalar("int32"), Append(object, "id"))
    ELSE IF key = <<"n", "a", "m", "e">> THEN At(ParseScalar("string"), Append(object, "name"))
    ELSE IF key = <<"t", "a", "g", "s">> THEN At(ParseList("string"), Append(object, "tags"))
    ELSE SkipNextElement

\* The key handler of an object that holds a list of records, written as
\* ParseRoot of the example is: ParseList with the handler of the records.
ListHandler(key, object) ==
    IF key = <<"i", "t", "e", "m", "s">> THEN At(ParseList("object"), Append(object, "items"))
    ELSE SkipNextElement

\* The handler that the continuation c of ParseObject was built with: ListHandler
\* for the root object, RootHandler for a record of the list.
RecordsHandler(c, key) ==
    IF c.target = <<0>> THEN ListHandler(key, ObjectOf(c))
    ELSE RootHandler(key, ObjectOf(c))

\* The key handler of a drone_action whose color comes through ParseRGB.
ActionHandler(key, object) ==
    IF key = <<"c", "o", "l", "o", "r">> THEN At(ParseRGB, Append(object, "color"))
    ELSE ParseError("Unexpected key in action ")

\* The answers of the user code that closure c runs for token t (a key handler,
\* or a user-written continuation); a library closure runs none.
Decisions(c, t) ==
    IF c.fn = "User" \/ (c.fn = "ParseObject" /\ ~c.first /\ t.type = "key")
    THEN IF schema = "doc" THEN {RootHandler(t.value, ObjectOf(c))}
         ELSE IF schema = "rec" THEN {RecordsHandler(c, t.value)}
         ELSE IF schema = "rgb" THEN {ActionHandler(t.value, ObjectOf(c))}
         ELSE IF schema = "lib" THEN LibResults ELSE AnyResults
    ELSE {KeepParsing}

----------------------------------------------------------------------------
(* inner_parser::ParseToken *)

Top == parser_stack[Len(parser_stack)]

NoDelivery ==
    [n |-> 0, id |-> 0, res |-> "none", below |-> 0, replayed |-> FALSE,
     tok |-> NoToken, error |-> <<>>]

\* What is kept of the delivery before the last one.
Brief(d) == [n |-> d.n, id |-> d.id, res |-> d.res, below |-> d.below]

Pushes(r) == r.type \in {"NewParser", "NewParser_ReplayCurrent"}

\* The switch of ParseToken: parser_stack after result r (id names the pushed copy).
StackSwitch(stack, r, id) ==
    CASE r.type = "KeepParsing" -> stack
      [] r.type = "ParserDone" -> SubSeq(stack, 1, Len(stack) - 1)
      [] r.type = "Error" -> stack
      [] r.type = "NewParser" -> Append(stack, [r.new_parser[1] EXCEPT !.id = id])
      [] r.type = "NewParser_ReplayCurrent" ->
             Append(stack, [r.new_parser[1] EXCEPT !.id = id])

\* Faulty variant: ParserDone leaves the finished closure on the stack.
StackAfter_DoneKeepsEntry(stack, r, id) ==
    IF r.type = "ParserDone" THEN stack ELSE StackSwitch(stack, r, id)

\* Faulty variant: KeepParsing pops the closure.
StackAfter_KeepPops(stack, r, id) ==
    IF r.type = "KeepParsing" THEN SubSeq(stack, 1, Len(stack) - 1)
    ELSE StackSwitch(stack, r, id)

StackAfter(stack, r, id) == StackSwitch(stack, r, id)

\* The switch of ParseToken: return true, return false, or return ParseToken(token).
ControlSwitch(r) ==
    CASE r.type = "KeepParsing" -> "true"
      [] r.type = "ParserDone" -> "true"
      [] r.type = "Error" -> "false"
      [] r.type = "NewParser" -> "true"
      [] r.type = "NewParser_ReplayCurrent" -> "recurse"

\* Faulty variant: NewParser redelivers the current token like NewParser_ReplayCurrent.
Control_DeferReplays(r) ==
    IF r.type = "NewParser" THEN "recurse" ELSE ControlSwitch(r)

\* Faulty variant: NewParser_ReplayCurrent returns true without the recursive call.
Control_ReplayReturns(r) ==
    IF r.type = "NewParser_ReplayCurrent" THEN "true" ELSE ControlSwitch(r)

\* Faulty variant: Error returns true, so the reader goes on.
Control_ErrorContinues(r) ==
    IF r.type = "Error" THEN "true" ELSE ControlSwitch(r)

Control(r) == ControlSwitch(r)

\* Faulty variant: on_error gets the continuation's message as it is.
Reported_Bare(r) ==
    IF r.type = "Error" THEN <<r.error[1]>> ELSE <<>>

\* The switch of ParseToken: what on_error is called with, if it is called.
Reported(r) ==
    IF r.type = "Error" THEN <<"Bad JSON item: " \o r.error[1]>> ELSE <<>>

\* Faulty variant: the default handler returns to ParseToken.
DefaultErrorHandler_Returns(message) == <<>>

\* The exceptions that DefaultErrorHandler throws: one std::runtime_error.
DefaultErrorHandler(message) ==
    <<"Failed parsing JSON with the followind error:\n" \o message>>

\* The exception that leaves on_error(message), if one does: the callback given
\* to the constructor stores the message and returns.
Thrown(handler, reported) ==
    IF handler = "DefaultErrorHandler" /\ reported # <<>>
    THEN DefaultErrorHandler(reported[1]) ELSE <<>>

\* mem after the call of closure c gave out: what the call assigned or emplaced.
Assigned(m, c, out) ==
    LET m1 == IF out.stored # <<>> /\ c.target # <<>>
              THEN Put(m, c.target, out.stored[1]) ELSE m
    IN  IF out.emplaced /\ c.target # <<>>
        THEN Put(m1, c.target, Append(Get(m1, c.target), DefaultValue(c.ty)))
        ELSE m1

\* m after a closure with identity id is stored: the lambda of ParseObject holds
\* a copy of the object it was built for.
Captured(m, parser, id) ==
    IF parser.fn = "ParseObject" /\ parser.target # <<>>
    THEN (id :> Get(m, parser.target)) @@ m
    ELSE m

\* The objects that are alive: the caller's, and those held by the closures in stack.
Live(m, stack) ==
    [a \in {b \in DOMAIN m : b = 0 \/ \E i \in DOMAIN stack : stack[i].id = b} |-> m[a]]

\* ParseToken from the switch on: closure c was called with token t and gave out.
Dispatch(c, out, t, tn, replayed) ==
    LET r == out.res
        called == [parser_stack EXCEPT ![Len(parser_stack)] = out.self]
        ctl == IF Thrown(on_error, Reported(r)) # <<>> THEN "throw" ELSE Control(r)
        seen == IF replayed THEN Append(chain, c.k) ELSE <<c.k>>
    IN
        /\ Pushes(r) => Len(parser_stack) < MaxStack
        /\ ctl = "recurse" => Len(seen) <= MaxReplay
        /\ parser_stack' = StackAfter(called, r, nextId)
        /\ nextId' = IF Pushes(r) THEN nextId + 1 ELSE nextId
        /\ calls' = calls \o Reported(r)
        /\ res' = IF Reported(r) # <<>> /\ on_error = "callback" THEN Reported(r) ELSE res
        /\ pc' = CASE ctl = "true" -> "reader"
                   [] ctl = "false" -> "stopped"
                   [] ctl = "recurse" -> "replay"
                   [] ctl = "throw" -> "thrown"
        /\ ret' = CASE ctl = "recurse" -> "pending"
                    [] ctl = "throw" -> "none"
                    [] OTHER -> ctl
        /\ result' = IF ctl = "throw"
                     THEN <<"thrown">> \o Thrown(on_error, Reported(r)) ELSE result
        /\ token' = IF ctl = "recurse" THEN t ELSE NoToken
        /\ last' = [n |-> tn, id |-> c.id, res |-> r.type,
                    below |-> IF Len(parser_stack) > 1
                              THEN parser_stack[Len(parser_stack) - 1].id
                              ELSE 0,
                    replayed |-> replayed,
                    tok |-> IF replayed \/ ctl = "recurse" THEN t ELSE NoToken,
                    error |-> r.error]
        /\ prev' = Brief(last)
        /\ chain' = seen
        /\ retired' = IF r.type = "ParserDone" THEN retired \cup {c.id} ELSE retired
        /\ deferred' = IF Pushes(r) THEN deferred \cup {c.id} ELSE deferred
        /\ ub' = ub
        /\ mem' = LET m1 == Assigned(mem, c, out)
                       m2 == IF Pushes(r) THEN Captured(m1, r.new_parser[1], nextId)
                             ELSE m1
                   IN  Live(m2, StackAfter(called, r, nextId))

\* One execution of the body of ParseToken for token t; tn numbers the token.
ParseToken(t, tn, replayed) ==
    IF parser_stack = <<>>
    THEN \* top() of an empty std::stack: undefined behaviour
         \E outcome \in {"crashed", "reader", "stopped"} :
            /\ ub' = TRUE
            /\ pc' = outcome
            /\ ret' = CASE outcome = "crashed" -> "none"
                        [] outcome = "reader" -> "true"
                        [] outcome = "stopped" -> "false"
            /\ last' = [n |-> tn, id |-> 0, res |-> "undefined", below |-> 0,
                        replayed |-> replayed, tok |-> NoToken, error |-> <<>>]
            /\ prev' = Brief(last)
            /\ chain' = <<0>>
            /\ token' = NoToken
            /\ UNCHANGED <<parser_stack, res, nextId, retired, deferred, calls, mem, result>>
    ELSE \E chosen \in Decisions(Top, t) :
            Dispatch(Top, Call(Top, t, chosen), t, tn, replayed)

----------------------------------------------------------------------------
(* The token source: rapidjson::Reader::Parse calling the handler *)

StructuralStart == {JSONToken("start_object", monostate), JSONToken("start_array", monostate)}

Values == ScalarTokens \cup (IF Len(open) < MaxDepth THEN StructuralStart ELSE {})

\* The tokens a well-formed document allows next.
NextTokens ==
    CASE rd = "value" -> Values
      [] rd = "inobj" -> {JSONToken("key", k) : k \in KeyPayloads}
                         \cup {JSONToken("end_object", monostate)}
      [] rd = "inarr" -> Values \cup {JSONToken("end_array", monostate)}
      [] rd = "end" -> {}

AfterValue(o) ==
    IF o = <<>> THEN "end" ELSE IF o[Len(o)] = "O" THEN "inobj" ELSE "inarr"

OpenAfter(t) ==
    CASE t.type = "start_object" -> Append(open, "O")
      [] t.type = "start_array" -> Append(open, "A")
      [] t.type \in {"end_object", "end_array"} -> SubSeq(open, 1, Len(open) - 1)
      [] OTHER -> open

RdAfter(t) ==
    CASE t.type = "start_object" -> "inobj"
      [] t.type = "start_array" -> "inarr"
      [] t.type = "key" -> "value"
      [] OTHER -> AfterValue(OpenAfter(t))

----------------------------------------------------------------------------
(* Actions *)

\* A SaxParser after its constructor, before ParseJSON is called.
Constructed(handler) ==
    /\ on_error = handler
    /\ parser_stack = <<>>
    /\ res = <<>>
    /\ pc = "idle"
    /\ token = NoToken
    /\ open = <<>>
    /\ rd = "value"
    /\ n = 0
    /\ nextId = 1
    /\ last = NoDelivery
    /\ prev = Brief(NoDelivery)
    /\ chain = <<>>
    /\ retired = {}
    /\ deferred = {}
    /\ calls = <<>>
    /\ ret = "none"
    /\ result = <<>>
    /\ ub = FALSE

\* The state before ParseJson is called: its SaxParser gets the lambda that
\* stores the message in res.
Idle == Constructed("callback")

NotCalled == [T |-> "", tok |-> NoToken, res |-> ParseResult("none", <<>>, <<>>),
              stored |-> <<>>]

Init ==
    /\ Idle
    /\ schema \in {"any", "lib"}
    /\ mem = (0 :> DefaultObject)
    /\ input = <<>>
    /\ unit = NotCalled

\* ParseJson up to reader.Parse: SaxParser::ParseJSON pushes the root continuation,
\* ParseObject(object, root_parser).new_parser.value().
ParseJson ==
    /\ pc = "idle"
    /\ LET root == [At(ParseObject, <<0>>).new_parser[1] EXCEPT !.id = nextId] IN
          /\ parser_stack' = Append(parser_stack, root)
          /\ mem' = Captured(mem, root, nextId)
    /\ nextId' = nextId + 1
    /\ pc' = "reader"
    /\ UNCHANGED <<res, token, open, rd, n, schema, on_error, last, prev, chain, retired, deferred,
                   calls, ret, result, ub, input, unit>>

\* A handler callback of inner_parser (Null, Bool, Int, ..., Key): the reader's
\* next token goes to ParseToken.
Callback ==
    /\ pc = "reader"
    /\ n < MaxTokens
    /\ \E t \in NextTokens :
          /\ open' = OpenAfter(t)
          /\ rd' = RdAfter(t)
          /\ n' = n + 1
          /\ ParseToken(t, n + 1, FALSE)
    /\ UNCHANGED <<schema, input, unit, on_error>>

\* The same callback, when the reader reads a given document.
CallbackFromInput ==
    /\ pc = "reader"
    /\ n < Len(input)
    /\ open' = OpenAfter(input[n + 1])
    /\ rd' = RdAfter(input[n + 1])
    /\ n' = n + 1
    /\ ParseToken(input[n + 1], n + 1, FALSE)
    /\ UNCHANGED <<schema, input, unit, on_error>>

\* return ParseToken(token): the recursive call for NewParser_ReplayCurrent.
Replay ==
    /\ pc = "replay"
    /\ ParseToken(token, n, TRUE)
    /\ UNCHANGED <<open, rd, n, schema, input, unit, on_error>>

\* The end of ParseJson: reader.Parse returns (the document ended, the input was
\* cut short or was malformed, or a callback returned false), then
\* std::unexpected(res.value()) or success.
ParseJsonReturns ==
    /\ pc \in {"reader", "stopped"}
    /\ result' = IF res # <<>> THEN <<"unexpected", res[1]>> ELSE <<"expected">>
    /\ pc' = "returned"
    /\ UNCHANGED <<parser_stack, res, token, open, rd, n, schema, on_error, nextId, last, prev, chain,
                   retired, deferred, calls, ret, ub, mem, input, unit>>

Next == ParseJson \/ Callback \/ Replay \/ ParseJsonReturns

Spec == Init /\ [][Next]_vars

\* Schemas built from the library combinators only.
LibInit == Init /\ schema = "lib"

LibSpec == LibInit /\ [][Next]_vars

----------------------------------------------------------------------------
(* ParseJson on given documents, with the end-to-end schema *)

Fields == {"id", "name", "tags"}

\* The values that the documents give for "id".
IdValues ==
    {JSONToken("number_unsigned", Whole(42)),
     JSONToken("string", <<"4", "2">>),
     JSONToken("string", <<"o", "o", "p", "s">>)}

\* The tokens of one member of the root object.
Member(f, idValue) ==
    CASE f = "id" -> <<JSONToken("key", <<"i", "d">>), idValue>>
      [] f = "name" -> <<JSONToken("key", <<"n", "a", "m", "e">>), JSONToken("string", <<"x">>)>>
      [] f = "tags" -> <<JSONToken("key", <<"t", "a", "g", "s">>),
                         JSONToken("start_array", monostate),
                         JSONToken("string", <<"a">>), JSONToken("string", <<"b">>),
                         JSONToken("end_array", monostate)>>

RECURSIVE Members(_, _)
Members(order, idValue) ==
    IF order = <<>> THEN <<>>
    ELSE Member(Head(order), idValue) \o Members(Tail(order), idValue)

\* The orders in which a document lists two or three of the fields.
Orders ==
    {o \in [1..2 -> Fields] : o[1] # o[2]}
    \cup {o \in [1..3 -> Fields] : o[1] # o[2] /\ o[1] # o[3] /\ o[2] # o[3]}

\* The token stream of the reader for a document.
Document(order, idValue) ==
    <<JSONToken("start_object", monostate)>> \o Members(order, idValue)
        \o <<JSONToken("end_object", monostate)>>

Documents == {Document(o, v) : o \in Orders, v \in IdValues}

DocInit ==
    /\ Idle
    /\ schema = "doc"
    /\ mem = (0 :> DefaultObject)
    /\ input \in Documents
    /\ unit = NotCalled

DocNext == ParseJson \/ CallbackFromInput \/ Replay \/ ParseJsonReturns

DocSpec == DocInit /\ [][DocNext]_vars

----------------------------------------------------------------------------
(* ParseJson on documents that hold a member the schema does not know *)

KeyOther == JSONToken("key", <<"o", "t", "h", "e", "r">>)

\* The values of the unknown member, as the reader emits them: "s", null, -1, {},
\* [], {"id": 7}, [2, [true]], {"a": [{}]}.
SkippedValues ==
    {<<JSONToken("string", <<"s">>)>>,
     <<JSONToken("null", monostate)>>,
     <<JSONToken("number_integer", Whole(0 - 1))>>,
     <<JSONToken("start_object", monostate), JSONToken("end_object", monostate)>>,
     <<JSONToken("start_array", monostate), JSONToken("end_array", monostate)>>,
     <<JSONToken("start_object", monostate), JSONToken("key", <<"i", "d">>),
       JSONToken("number_unsigned", Whole(7)), JSONToken("end_object", monostate)>>,
     <<JSONToken("start_array", monostate), JSONToken("number_unsigned", Whole(2)),
       JSONToken("start_array", monostate), JSONToken("boolean", TRUE),
       JSONToken("end_array", monostate), JSONToken("end_array", monostate)>>,
     <<JSONToken("start_object", monostate), JSONToken("key", <<"a">>),
       JSONToken("start_array", monostate), JSONToken("start_object", monostate),
       JSONToken("end_object", monostate), JSONToken("end_array", monostate),
       JSONToken("end_object", monostate)>>}

\* The values of "tags": [], ["a"], ["a", "b"].
TagLists == {<<>>, <<<<"a">>>>, <<<<"a">>, <<"b">>>>}

RECURSIVE Strings(_)
Strings(texts) ==
    IF texts = <<>> THEN <<>>
    ELSE <<JSONToken("string", Head(texts))>> \o Strings(Tail(texts))

\* The tokens of one member: a field of the schema, or the unknown member.
MemberOf(f, skipped, tags) ==
    CASE f = "other" -> <<KeyOther>> \o skipped
      [] f = "tags" -> <<JSONToken("key", <<"t", "a", "g", "s">>),
                         JSONToken("start_array", monostate)>>
                       \o Strings(tags) \o <<JSONToken("end_array", monostate)>>
      [] OTHER -> Member(f, JSONToken("number_unsigned", Whole(42)))

RECURSIVE MembersOf(_, _, _)
MembersOf(layout, skipped, tags) ==
    IF layout = <<>> THEN <<>>
    ELSE MemberOf(Head(layout), skipped, tags) \o MembersOf(Tail(layout), skipped, tags)

\* Where the unknown member stands among the fields.
Layouts ==
    {<<"other", "id", "name">>, <<"id", "other", "tags", "name">>, <<"tags", "id", "other">>}

RECURSIVE Known(_)
Known(layout) ==
    IF layout = <<>> THEN <<>>
    ELSE IF Head(layout) = "other" THEN Known(Tail(layout))
    ELSE <<Head(layout)>> \o Known(Tail(layout))

SkipDocument(layout, skipped, tags) ==
    <<JSONToken("start_object", monostate)>> \o MembersOf(layout, skipped, tags)
        \o <<JSONToken("end_object", monostate)>>

\* Every document with the unknown member, and the same document without it.
SkipDocuments ==
    {SkipDocument(l, v, g) : l \in Layouts, v \in SkippedValues, g \in TagLists}
    \cup {SkipDocument(Known(l), <<>>, g) : l \in Layouts, g \in TagLists}

SkipInit ==
    /\ Idle
    /\ schema = "doc"
    /\ mem = (0 :> DefaultObject)
    /\ input \in SkipDocuments
    /\ unit = NotCalled

SkipSpec == SkipInit /\ [][DocNext]_vars

----------------------------------------------------------------------------
(* ParseJson on documents that hold a list of records *)

\* The records of the documents: {"id": 1, "name": "x"}, {"name": "y", "id": 2},
\* {"id": 3}.
Records ==
    {[id |-> 1, name |-> <<"x">>, order |-> <<"id", "name">>],
     [id |-> 2, name |-> <<"y">>, order |-> <<"name", "id">>],
     [id |-> 3, name |-> <<>>, order |-> <<"id">>]}

\* The tokens of one member of a record.
RecordMember(rec, f) ==
    IF f = "id" THEN <<JSONToken("key", <<"i", "d">>), JSONToken("number_unsigned", Whole(rec.id))>>
    ELSE <<JSONToken("key", <<"n", "a", "m", "e">>), JSONToken("string", rec.name)>>

RECURSIVE RecordMembers(_, _)
RecordMembers(rec, order) ==
    IF order = <<>> THEN <<>>
    ELSE RecordMember(rec, Head(order)) \o RecordMembers(rec, Tail(order))

RecordTokens(rec) ==
    <<JSONToken("start_object", monostate)>> \o RecordMembers(rec, rec.order)
        \o <<JSONToken("end_object", monostate)>>

RECURSIVE RecordsTokens(_)
RecordsTokens(recs) ==
    IF recs = <<>> THEN <<>> ELSE RecordTokens(Head(recs)) \o RecordsTokens(Tail(recs))

\* The lists of records of the documents: none, one or two records.
RecordLists == {<<>>} \cup {<<r>> : r \in Records} \cup {<<r, q>> : r \in Records, q \in Records}

\* {"items": [record, ...]}
RecordsDocument(recs) ==
    <<JSONToken("start_object", monostate), JSONToken("key", <<"i", "t", "e", "m", "s">>),
      JSONToken("start_array", monostate)>>
    \o RecordsTokens(recs)
    \o <<JSONToken("end_array", monostate), JSONToken("end_object", monostate)>>

\* struct { std::vector<record> items; }, default constructed
DefaultHolder == [items |-> <<>>]

RecordsInit ==
    /\ Idle
    /\ schema = "rec"
    /\ mem = (0 :> DefaultHolder)
    /\ input \in {RecordsDocument(recs) : recs \in RecordLists}
    /\ unit = NotCalled

RecordsSpec == RecordsInit /\ [][DocNext]_vars

----------------------------------------------------------------------------
(* ParseJson on a drone_action whose color is given in one of its forms *)

\* The channel values that the documents use.
Channels == {0, 128, 255}

\* [r, g, b]
ArrayForm(r, g, b) ==
    <<JSONToken("start_array", monostate), JSONToken("number_unsigned", Whole(r)),
      JSONToken("number_unsigned", Whole(g)), JSONToken("number_unsigned", Whole(b)),
      JSONToken("end_array", monostate)>>

\* {"r": r, "g": g, "b": b}
ObjectForm(r, g, b) ==
    <<JSONToken("start_object", monostate),
      JSONToken("key", <<"r">>), JSONToken("number_unsigned", Whole(r)),
      JSONToken("key", <<"g">>), JSONToken("number_unsigned", Whole(g)),
      JSONToken("key", <<"b">>), JSONToken("number_unsigned", Whole(b)),
      JSONToken("end_object", monostate)>>

\* "#ff8000", and a text that lacks the '#'
StringForms ==
    {<<JSONToken("string", <<"#", "f", "f", "8", "0", "0", "0">>)>>,
     <<JSONToken("string", <<"f", "f", "8", "0", "0", "0">>)>>}

ColorForms ==
    {ArrayForm(r, g, b) : r \in Channels, g \in {0, 255}, b \in {0, 128}}
    \cup {ObjectForm(r, 128, 255) : r \in Channels}
    \cup StringForms

\* {"color": form}
ColorDocument(form) ==
    <<JSONToken("start_object", monostate), JSONToken("key", <<"c", "o", "l", "o", "r">>)>>
    \o form \o <<JSONToken("end_object", monostate)>>

\* struct drone_action { RGB_t color; ... }: the channels have no initialiser, so
\* they hold whatever was there.
ActionObjects == {[color |-> [r |-> Whole(v), g |-> Whole(v), b |-> Whole(v)]] : v \in {0, 7}}

RgbInit ==
    /\ Idle
    /\ schema = "rgb"
    /\ \E object \in ActionObjects : mem = (0 :> object)
    /\ input \in {ColorDocument(form) : form \in ColorForms}
    /\ unit = NotCalled

RgbSpec == RgbInit /\ [][DocNext]_vars

----------------------------------------------------------------------------
(* A continuation built by ParseScalar, called once on one token *)

ScalarTypes == NumericTypes \cup {"string", "bool"}

\* Payloads of number_integer tokens: the limits of the integral types and their
\* neighbours.
SignedPayloads ==
    {Num(TRUE, <<9, 223372036, 854775808>>), Num(TRUE, <<0, 2, 147483649>>),
     Num(TRUE, <<0, 2, 147483648>>), Whole(0 - 32769), Whole(0 - 32768),
     Whole(0 - 1234), Whole(0 - 129), Whole(0 - 128), Whole(0 - 1), Whole(0), Whole(1),
     Whole(127), Whole(128), Whole(255), Whole(256), Whole(1234), Whole(32767),
     Whole(32768), Whole(65535), Whole(65536), Num(FALSE, <<0, 2, 147483647>>),
     Num(FALSE, <<0, 2, 147483648>>), Num(FALSE, <<0, 4, 294967295>>),
     Num(FALSE, <<0, 4, 294967296>>), Num(FALSE, <<9, 223372036, 854775807>>)}

\* Payloads of number_unsigned tokens.
UnsignedPayloads ==
    {v \in SignedPayloads : ~v.neg}
    \cup {Num(FALSE, <<9, 223372036, 854775808>>), Num(FALSE, <<18, 446744073, 709551615>>)}

\* Payloads of number_float tokens: 1234.0, -1234.0, 127.0, 0.5, 0.0, 3.5e38,
\* -3.5e38, 1e308.
FloatPayloads ==
    {Normal(Dec(FALSE, 1234, 0)), Normal(Dec(TRUE, 1234, 0)), Normal(Dec(FALSE, 127, 0)),
     Normal(Dec(FALSE, 5, 0 - 1)), Normal(Dec(FALSE, 0, 0)), Normal(Dec(FALSE, 35, 37)),
     Normal(Dec(TRUE, 35, 37)), Normal(Dec(FALSE, 1, 308))}

\* Payloads of string tokens.
TextPayloads ==
    {<<"1", "2", "3", "4">>,
     <<"-", "1", "2", "3", "4">>,
     <<"1", "2", "3", "4", ".", "0">>,
     <<"-", "1", "2", "3", "4", ".", "0">>,
     <<"0">>,
     <<"-", "1">>,
     <<"1", "2", "7">>,
     <<"1", "2", "8">>,
     <<"-", "1", "2", "8">>,
     <<"-", "1", "2", "9">>,
     <<"2", "5", "5">>,
     <<"2", "5", "6">>,
     <<"1", "2", "x">>,
     <<"x">>,
     <<>>,
     <<"-">>,
     <<"0", "0", "7">>,
     <<"+", "5">>,
     <<" ", "5">>,
     <<".", "5">>,
     <<"1", "e", "2">>, <<"1", "e", "3", "9">>,
     <<"1", "e", "3", "0", "9">>,
     <<"9", "2", "2", "3", "3", "7", "2", "0", "3", "6", "8", "5", "4", "7", "7", "5", "8", "0", "7">>,
     <<"9", "2", "2", "3", "3", "7", "2", "0", "3", "6", "8", "5", "4", "7", "7", "5", "8", "0", "8">>,
     <<"-", "9", "2", "2", "3", "3", "7", "2", "0", "3", "6", "8", "5", "4", "7", "7", "5", "8", "0", "8">>,
     <<"-", "9", "2", "2", "3", "3", "7", "2", "0", "3", "6", "8", "5", "4", "7", "7", "5", "8", "0", "9">>,
     <<"1", "8", "4", "4", "6", "7", "4", "4", "0", "7", "3", "7", "0", "9", "5", "5", "1", "6", "1", "5">>,
     <<"1", "8", "4", "4", "6", "7", "4", "4", "0", "7", "3", "7", "0", "9", "5", "5", "1", "6", "1", "6">>}

UnitTokens ==
    {JSONToken("number_integer", v) : v \in SignedPayloads}
    \cup {JSONToken("number_unsigned", v) : v \in UnsignedPayloads}
    \cup {JSONToken("number_float", v) : v \in FloatPayloads}
    \cup {JSONToken("string", v) : v \in TextPayloads}
    \cup {JSONToken("key", v) : v \in {<<"a">>, <<"7">>}}
    \cup {JSONToken("boolean", v) : v \in BOOLEAN}
    \cup {JSONToken(ty, monostate) :
             ty \in {"null", "start_object", "end_object", "start_array", "end_array"}}

\* The path of the scalar that ParseScalar is given.
UnitTarget == <<0, "target">>

ScalarInit ==
    /\ Idle
    /\ schema = "unit"
    /\ input = <<>>
    /\ \E T \in ScalarTypes, t \in UnitTokens :
          /\ unit = [NotCalled EXCEPT !.T = T, !.tok = t]
          /\ mem = (0 :> [target |-> DefaultValue(T)])

\* auto parser = ParseScalar(target).new_parser.value(); res = parser(token)
CallScalar ==
    /\ schema = "unit"
    /\ unit.res.type = "none"
    /\ LET parser == At(ParseScalar(unit.T), UnitTarget).new_parser[1]
           out == Call(parser, unit.tok, KeepParsing)
       IN  /\ unit' = [unit EXCEPT !.res = out.res, !.stored = out.stored]
           /\ mem' = Assigned(mem, parser, out)
    /\ UNCHANGED <<parser_stack, res, pc, token, open, rd, n, schema, on_error, nextId, last, prev,
                   chain, retired, deferred, calls, ret, result, ub, input>>

ScalarNext == CallScalar

ScalarSpec == ScalarInit /\ [][ScalarNext]_vars

----------------------------------------------------------------------------
(* A continuation of SkipNextElement, ParseObject or ParseList, called on     *)
(* tokens one after the other by its owner, as the tests call it              *)

MaxCalls == 4       \* calls of the continuation

\* One token of every kind.
DriveTokens ==
    {JSONToken("null", monostate), JSONToken("boolean", TRUE),
     JSONToken("number_integer", Whole(0 - 1)), JSONToken("number_unsigned", Whole(2)),
     JSONToken("number_float", Normal(Dec(FALSE, 5, 0 - 1))),
     JSONToken("string", <<"x">>), JSONToken("key", <<"a">>),
     JSONToken("start_object", monostate), JSONToken("end_object", monostate),
     JSONToken("start_array", monostate), JSONToken("end_array", monostate)}

\* The collections that ParseList is given.
DriveCollections == {<<>>, <<<<"x">>>>}

\* The continuation, before its first call.
Built(parser) ==
    [T |-> "", tok |-> NoToken, res |-> ParseResult("none", <<>>, <<>>), stored |-> <<>>,
     parser |-> parser, toks |-> <<>>, results |-> <<>>, handled |-> <<>>, before |-> <<>>,
     made |-> <<>>]

\* Before the factory is called there is no continuation.
NoParser == Closure("none", "", 0)

\* What the caller holds: nothing (for SkipNextElement and ParseObject, whose
\* object the key handler owns), a collection, or a scalar of one of these types.
DriveTargets == {"", "list", "string", "bool", "uint8", "double"}

TargetValues(T) ==
    IF T = "" THEN {<<>>}
    ELSE IF T = "list" THEN DriveCollections
    ELSE {DefaultValue(T)}

\* The calls of the factories that the caller can make for its target.
Factories(T) ==
    IF T = "" THEN {SkipNextElement, ParseObject}
    ELSE IF T = "list" THEN {At(ParseList("string"), UnitTarget)}
    ELSE {At(ParseScalar(T), UnitTarget)}
         \cup (IF T = "string" THEN {At(ParseString, UnitTarget)}
               ELSE IF T = "bool" THEN {At(ParseBool, UnitTarget)}
               ELSE {At(ParseNumber(T), UnitTarget)})

DriveInit ==
    /\ Idle
    /\ schema = "drive"
    /\ input = <<>>
    /\ \E T \in DriveTargets :
          /\ unit = [Built(NoParser) EXCEPT !.T = T]
          /\ \E value \in TargetValues(T) : mem = (0 :> [target |-> value])

\* Faulty variant: the factory pushes the continuation that it built.
Factory_Pushes(r, stack, m) ==
    [res |-> r, parser_stack |-> Append(stack, r.new_parser[1]), mem |-> m]

\* A factory returns ParseResult{.type = NewParser, .new_parser = lambda}: the
\* lambda captures the target by reference and is not run.
Factory(r, stack, m) == [res |-> r, parser_stack |-> stack, mem |-> m]

\* The caller keeps what the factory returned.
Made(f) ==
    /\ unit' = [unit EXCEPT !.parser = f.res.new_parser[1], !.made = <<f.res>>]
    /\ parser_stack' = f.parser_stack
    /\ mem' = f.mem

\* auto parser = ParseList(target, ...).new_parser.value(); and the like.
Build ==
    /\ schema = "drive"
    /\ unit.made = <<>>
    /\ \E r \in Factories(unit.T) : Made(Factory(r, parser_stack, mem))
    /\ UNCHANGED <<res, pc, token, open, rd, n, schema, on_error, nextId, last, prev,
                   chain, retired, deferred, calls, ret, result, ub, input>>

\* What the key handler returned in the call of c on t, if the call ran it.
Handled(c, t, chosen) ==
    IF c.fn = "ParseObject" /\ ~c.first /\ t.type = "key" THEN <<chosen>> ELSE <<>>

\* res = parser(t), where the call gave out.
Driven(c, t, chosen, out) ==
    /\ unit' = [unit EXCEPT !.tok = t, !.res = out.res, !.stored = out.stored,
                            !.parser = out.self, !.toks = Append(@, t.type),
                            !.results = Append(@, out.res.type),
                            !.handled = Handled(c, t, chosen),
                            !.before = Get(mem, UnitTarget)]
    /\ mem' = Assigned(mem, c, out)

\* res = parser(JSONToken{...}): the owner calls the continuation again unless it
\* said ParserDone or Error.
CallParser ==
    /\ schema = "drive"
    /\ unit.made # <<>>
    /\ Len(unit.toks) < MaxCalls
    /\ unit.res.type \notin {"ParserDone", "Error"}
    /\ \E t \in DriveTokens : \E chosen \in Decisions(unit.parser, t) :
          Driven(unit.parser, t, chosen, Call(unit.parser, t, chosen))
    /\ UNCHANGED <<parser_stack, res, pc, token, open, rd, n, schema, on_error, nextId, last, prev,
                   chain, retired, deferred, calls, ret, result, ub, input>>

DriveNext == Build \/ CallParser

DriveSpec == DriveInit /\ [][DriveNext]_vars

----------------------------------------------------------------------------
(* A SaxParser that its owner builds with either constructor and calls more    *)
(* than once                                                                   *)

MaxParses == 2

\* The documents given to ParseJSON: {"name": "x"}, {"tags": ["a", "b"]},
\* {"id": 42}, {"id": "oops"}; the reader may stop before the end of any of them.
SaxDocuments ==
    {Document(<<"name">>, JSONToken("number_unsigned", Whole(42))),
     Document(<<"tags">>, JSONToken("number_unsigned", Whole(42))),
     Document(<<"id">>, JSONToken("number_unsigned", Whole(42))),
     Document(<<"id">>, JSONToken("string", <<"o", "o", "p", "s">>))}

\* SaxParser parser; or SaxParser parser(callback);
SaxInit ==
    /\ \E handler \in {"callback", "DefaultErrorHandler"} : Constructed(handler)
    /\ schema = "doc"
    /\ mem = (0 :> DefaultObject)
    /\ input = <<>>
    /\ unit = [parses |-> 0, root |-> 0]

\* parser.ParseJSON(input, root_parser) up to reader.Parse, on a new SaxParser or
\* on one whose earlier call returned or threw: the root continuation is pushed
\* and a new reader starts on the stream.
SaxParseJSON ==
    /\ pc \in {"idle", "returned", "thrown"}
    /\ unit.parses < MaxParses
    /\ Len(parser_stack) < MaxStack
    /\ LET root == [At(ParseObject, <<0>>).new_parser[1] EXCEPT !.id = nextId] IN
          /\ parser_stack' = Append(parser_stack, root)
          /\ mem' = Captured(mem, root, nextId)
    /\ nextId' = nextId + 1
    /\ input' \in SaxDocuments
    /\ n' = 0
    /\ open' = <<>>
    /\ rd' = "value"
    /\ pc' = "reader"
    /\ res' = <<>>
    /\ result' = <<>>
    /\ unit' = [parses |-> unit.parses + 1, root |-> nextId]
    /\ UNCHANGED <<token, schema, on_error, last, prev, chain, retired, deferred, calls, ret, ub>>

\* reader.Parse returns (the document ended, the input was cut short, or a
\* callback returned false) and ParseJSON returns to its caller.
SaxReturns ==
    /\ pc \in {"reader", "stopped"}
    /\ pc' = "returned"
    /\ result' = <<"void">>
    /\ UNCHANGED <<parser_stack, res, token, open, rd, n, schema, on_error, nextId, last, prev,
                   chain, retired, deferred, calls, ret, ub, mem, input, unit>>

SaxNext == SaxParseJSON \/ CallbackFromInput \/ Replay \/ SaxReturns

SaxSpec == SaxInit /\ [][SaxNext]_vars

----------------------------------------------------------------------------
(* Properties *)

\* A step in which a token was delivered to a continuation.
Delivery == last' # last

Ids(stack) == [i \in DOMAIN stack |-> stack[i].id]

Below(stack) == SubSeq(stack, 1, Len(stack) - 1)

\* C1: when the top continuation returns ParserDone, exactly that entry is popped,
\* ParseToken returns without redelivering the token, and the next delivery is of
\* the reader's next token, to the entry that was directly below.
C1_DonePopsAndReturnsToCaller ==
    [][/\ (Delivery /\ last'.res = "ParserDone") =>
            /\ Ids(parser_stack') = Ids(Below(parser_stack))
            /\ pc' = "reader"
            /\ token' = NoToken
       /\ (Delivery /\ last.res = "ParserDone") =>
            /\ last'.n = last.n + 1
            /\ ~last'.replayed
            /\ last'.id = last.below
      ]_vars

\* A continuation returned ParserDone and the following token went to its caller.
C1_Witness ==
    /\ prev.res = "ParserDone"
    /\ prev.below # 0
    /\ last.id = prev.below
    /\ last.n = prev.n + 1

\* C2: when the top continuation returns NewParser, the new closure is pushed right
\* above it, ParseToken returns true without delivering the current token to the
\* new closure, and the next delivery is of the reader's next token, to that closure.
C2_DeferPushesAndWaits ==
    [][/\ (Delivery /\ last'.res = "NewParser") =>
            /\ Len(parser_stack') = Len(parser_stack) + 1
            /\ Ids(Below(parser_stack')) = Ids(parser_stack)
            /\ parser_stack'[Len(parser_stack')].id = nextId
            /\ nextId' = nextId + 1
            /\ parser_stack'[Len(parser_stack')].first
            /\ parser_stack'[Len(parser_stack')].depth = 0
            /\ pc' = "reader"
            /\ ret' = "true"
       /\ (Delivery /\ last.res = "NewParser") =>
            /\ last'.n = last.n + 1
            /\ ~last'.replayed
            /\ last'.id = Top.id
            /\ Top.id = nextId - 1
      ]_vars

\* A closure pushed by NewParser received the token after the one that pushed it.
C2_Witness ==
    /\ prev.res = "NewParser"
    /\ last.below = prev.id
    /\ last.n = prev.n + 1
    /\ last.id \notin {0, prev.id}

\* C3: when the top continuation returns NewParser_ReplayCurrent, the new closure is
\* pushed and the same token is delivered to it by the recursive call, before the
\* reader emits anything; the callback returns what that redelivery returns.
C3_ReplayRedeliversSameToken ==
    [][/\ (Delivery /\ last'.res = "NewParser_ReplayCurrent") =>
            /\ Len(parser_stack') = Len(parser_stack) + 1
            /\ Ids(Below(parser_stack')) = Ids(parser_stack)
            /\ parser_stack'[Len(parser_stack')].id = nextId
            /\ pc' = "replay"
            /\ ret' = "pending"
            /\ token' = last'.tok
       /\ pc = "replay" =>
            /\ Delivery
            /\ n' = n
            /\ open' = open
            /\ last'.replayed
            /\ last'.n = last.n
            /\ last'.tok = last.tok
            /\ last'.id = Top.id
            /\ pc' # "replay" => ret' = (IF last'.res = "Error" THEN "false" ELSE "true")
      ]_vars

\* A token was redelivered to a pushed closure and the call has returned.
C3_Witness ==
    /\ prev.res = "NewParser_ReplayCurrent"
    /\ last.replayed
    /\ last.n = prev.n
    /\ last.below = prev.id
    /\ ret \in {"true", "false"}

\* C4: when the top continuation returns KeepParsing, parser_stack keeps the same
\* entries in the same order, on_error is not called and the callback returns true.
C4_ContinueLeavesStack ==
    [][(Delivery /\ last'.res = "KeepParsing") =>
            /\ Ids(parser_stack') = Ids(parser_stack)
            /\ calls' = calls
            /\ res' = res
            /\ ret' = "true"
            /\ pc' = "reader"
      ]_vars

\* KeepParsing was returned with more than one entry on the stack.
C4_Witness ==
    /\ last.res = "KeepParsing"
    /\ Len(parser_stack) >= 2
    /\ pc = "reader"

\* C5: after a continuation returns Error, the callback returns false and no
\* continuation receives a token any more, also when the Error answers a token
\* redelivered by NewParser_ReplayCurrent.
C5_FailIsTerminal ==
    [][/\ (Delivery /\ last'.res = "Error") =>
            /\ ret' = "false"
            /\ pc' = "stopped"
       /\ last.res = "Error" =>
            /\ ~Delivery
            /\ parser_stack' = parser_stack
            /\ n' = n
            /\ pc' \notin {"reader", "replay"}
      ]_vars

\* An Error answered a redelivered token and the parse is over.
C5_Witness ==
    /\ last.res = "Error"
    /\ last.replayed
    /\ pc = "returned"

\* C6 as stated: when a continuation returned Error(msg), on_error was called once
\* and ParseJson returns msg; when none did, on_error was not called and ParseJson
\* returns success.
C6_ErrorValueIsMessage ==
    result # <<>> =>
        IF last.res = "Error"
        THEN Len(calls) = 1 /\ result = <<"unexpected", last.error[1]>>
        ELSE calls = <<>> /\ result = <<"expected">>

\* C6, amended: when a continuation returned Error(msg), on_error was called once
\* and ParseJson returns "Bad JSON item: " followed by msg; when none did, on_error
\* was not called and ParseJson returns success.
C6_ErrorValueIsPrefixedMessage ==
    result # <<>> =>
        IF last.res = "Error"
        THEN /\ Len(calls) = 1
             /\ calls[1] = "Bad JSON item: " \o last.error[1]
             /\ result = <<"unexpected", calls[1]>>
        ELSE calls = <<>> /\ result = <<"expected">>

\* ParseJson returned the error of a parse in which a continuation failed.
C6_Witness ==
    /\ result # <<>>
    /\ result[1] = "unexpected"
    /\ last.res = "Error"
    /\ last.error # <<>>

\* C7: while a parse is in progress parser_stack is not empty: no token is delivered
\* with the stack empty, and until the root value's last token has been consumed the
\* root continuation is at the bottom.
C7_StackNeverEmptyInParse ==
    /\ ~ub
    /\ (pc \in {"reader", "replay"} /\ rd # "end") =>
            (parser_stack # <<>> /\ parser_stack[1].id = 1)

\* C8 as stated: during a parse the depth of parser_stack equals the nesting depth
\* of the structural tokens consumed so far (hence never exceeds its maximum).
C8_DepthEqualsNesting ==
    pc \in {"reader", "replay", "stopped"} => Len(parser_stack) = Len(open)

\* C8, amended: with library combinators only, the depth of parser_stack is at
\* every instant at most the nesting depth of the structural tokens consumed so far
\* plus one.
C8_DepthAtMostNestingPlusOne ==
    Len(parser_stack) <= Len(open) + 1

\* Inside an object or array, the stack is one deeper than the nesting.
C8_Witness ==
    /\ pc = "reader"
    /\ Len(open) >= 1
    /\ Len(parser_stack) = Len(open) + 1

\* C9: the dispatcher guards against replay cycles: in one callback no user
\* continuation is given the same token twice.
C9_NoReplayCycle ==
    \A i, j \in DOMAIN chain : (i < j /\ chain[i] # 0) => chain[i] # chain[j]

\* C10 as stated: a continuation that has returned ParserDone, NewParser or
\* NewParser_ReplayCurrent is never delivered another token.
C10_SingleUse ==
    [][Delivery => last'.id \notin (retired \cup deferred)]_vars

\* C10, amended: a continuation that has returned ParserDone is off the stack and is
\* never delivered another token (one that returned NewParser or
\* NewParser_ReplayCurrent stays on the stack and is delivered tokens again).
C10_DoneIsDiscarded ==
    [][/\ Delivery => last'.id \notin retired
       /\ \A i \in DOMAIN parser_stack' : parser_stack'[i].id \notin retired'
      ]_vars

\* A continuation that had deferred received a token after the continuation it
\* deferred to was done.
C10_Witness ==
    /\ last.id \in deferred
    /\ last.id \notin retired
    /\ last.res \in {"KeepParsing", "Error"}
    /\ prev.res = "ParserDone"
    /\ prev.below = last.id

----------------------------------------------------------------------------
(* Properties of the scalar continuations, called on their own *)

\* The continuation has been called.
Called == unit.res.type # "none"

\* The scalar that ParseScalar was given.
Target == Get(mem, UnitTarget)

Done == unit.res.type = "ParserDone"

\* Error, carrying a message and no continuation.
Failed ==
    /\ unit.res.type = "Error"
    /\ unit.res.error # <<>>
    /\ unit.res.new_parser = <<>>

\* The call assigned nothing to the target.
Untouched == unit.stored = <<>> /\ Target = DefaultValue(unit.T)

UnsignedTypes == {"uint8", "uint16", "uint32", "uint64"}

\* lowest <= v <= max for the number v and the integral type T, as numbers.
WithinRange(v, T) ==
    /\ ~NumLess(numeric_limits_max(T), v)
    /\ ~NumLess(v, numeric_limits_lowest(T))

\* C14: for a number_integer or number_unsigned token and an integral target type
\* T, ParseNumber returns ParserDone with target equal to the payload exactly when
\* the payload is within T's range, and Error otherwise, the target left as it
\* was; for a floating T, every 64-bit payload being in range, it returns ParserDone.
C14_IntegerTokenRangeRule ==
    (Called /\ unit.tok.type \in {"number_integer", "number_unsigned"}) =>
        /\ unit.T \in IntegralTypes =>
              IF WithinRange(unit.tok.value, unit.T)
              THEN Done /\ Target = unit.tok.value
              ELSE Failed /\ Untouched
        /\ unit.T \in FloatingTypes => Done

\* C15: for every unsigned target type, a number_integer token with a negative
\* payload is answered with Error and the target is not written.
C15_NegativeIntoUnsignedRejected ==
    (Called /\ unit.T \in UnsignedTypes /\ unit.tok.type = "number_integer"
        /\ unit.tok.value.neg)
        => Failed /\ Untouched

\* The text that std::from_chars reads as a number of type T.
LiteralPart(data, T) == SubSeq(data, 1, LiteralLen(data, T))

\* The continuation asked for a numeric target received a string token.
TextToNumber == Called /\ unit.T \in NumericTypes /\ unit.tok.type = "string"

WithFraction == {<<"1", "2", "3", "4", ".", "0">>, <<"-", "1", "2", "3", "4", ".", "0">>}

\* The integer part of such a text.
IntegerPart(data) == IF data[1] = "-" THEN Whole(0 - 1234) ELSE Whole(1234)

\* C17: for an integral target, a string token made of an integer within the
\* target's range (negative only for a signed target) and a fractional part gets
\* ParserDone, and the target holds the integer part.
C17_FractionIsCutOff ==
    (TextToNumber /\ unit.T \in IntegralTypes /\ unit.tok.value \in WithFraction
        /\ WithinRange(IntegerPart(unit.tok.value), unit.T)
        /\ (unit.tok.value[1] = "-" => is_signed(unit.T)))
        => Done /\ Target = IntegerPart(unit.tok.value)

\* "-1234.0" was stored as -1234 in a signed target.
C17_Witness ==
    /\ TextToNumber
    /\ unit.T = "int32"
    /\ unit.tok.value = <<"-", "1", "2", "3", "4", ".", "0">>
    /\ Done
    /\ Target = Whole(0 - 1234)

\* x * 10^k; as in MagMul10Add, a magnitude from 10^20 on is kept as it is.
RECURSIVE TimesTenTo(_, _)
TimesTenTo(x, k) ==
    IF k = 0 \/ x[1] >= 100 \/ x = <<0, 0, 0>> THEN x
    ELSE TimesTenTo(MagMul10Add(x, 0), k - 1)

\* The number that a text denotes when the whole of it is a decimal literal (sign,
\* digits, fraction, exponent) with a whole value: <<v>>, and <<>> for other texts.
WholeNumber(data) ==
    LET neg == Len(data) > 0 /\ data[1] = "-"
        start == IF neg THEN 2 ELSE 1
        ip == DigitRun(data, start)
        dot == start + ip <= Len(data) /\ data[start + ip] = "."
        fp == IF dot THEN DigitRun(data, start + ip + 1) ELSE 0
        after == start + ip + (IF dot THEN 1 + fp ELSE 0)
        hasE == after <= Len(data) /\ data[after] \in {"e", "E"}
        esign == hasE /\ after + 1 <= Len(data) /\ data[after + 1] \in {"-", "+"}
        es == IF esign THEN after + 2 ELSE after + 1
        ecnt == IF hasE THEN DigitRun(data, es) ELSE 0
        emag == SmallValue(data, es, ecnt)
        shift == (IF esign /\ data[after + 1] = "-" THEN 0 - emag ELSE emag) - fp
        ds == SubSeq(data, start, start + ip - 1)
              \o SubSeq(data, start + ip + 1, start + ip + fp)
        kept == Len(ds) + shift
        mag == IF shift >= 0 THEN TimesTenTo(DigitsValue(ds, 1, Len(ds)), shift)
               ELSE IF kept >= 0 THEN DigitsValue(ds, 1, kept)
               ELSE <<0, 0, 0>>
        whole == shift >= 0 \/ \A i \in DOMAIN ds : i > kept => ds[i] = "0"
    IN  IF LiteralLen(data, "double") = Len(data) /\ data # <<>> /\ whole
        THEN <<Num(neg /\ mag # <<0, 0, 0>>, mag)>>
        ELSE <<>>

LeadingInteger(data, T) ==
    LET len == LiteralLen(data, T)
        neg == is_signed(T) /\ data[1] = "-"
        mag == IF neg THEN DigitsValue(data, 2, len - 1) ELSE DigitsValue(data, 1, len)
    IN  IF len = 0 THEN <<>> ELSE <<Num(neg /\ mag # <<0, 0, 0>>, mag)>>

WithinFloatingRange(v, T) ==
    /\ ~DecLess(numeric_limits_max(T), v)
    /\ ~DecLess(v, numeric_limits_lowest(T))

\* C19: a number_float token given to ParseNumber with an integral target gets
\* Error whatever the payload, and the target is not written; with a floating
\* target it gets ParserDone when the payload is within the target's range.
C19_FloatTokenRule ==
    (Called /\ unit.T \in NumericTypes /\ unit.tok.type = "number_float") =>
        IF unit.T \in IntegralTypes THEN Failed /\ Untouched
        ELSE WithinFloatingRange(unit.tok.value, unit.T) => Done /\ unit.stored # <<>>

\* The float 127.0, which fits int8, was refused for an int8 target.
C19_Witness ==
    /\ Called
    /\ unit.T = "int8"
    /\ unit.tok = JSONToken("number_float", Normal(Dec(FALSE, 127, 0)))
    /\ Failed

\* The token kinds that are not compatible with a target of type T.
Incompatible(T) ==
    IF T = "string" THEN JSONTokenType \ {"string"}
    ELSE IF T = "bool" THEN JSONTokenType \ {"boolean"}
    ELSE {"null", "boolean", "start_object", "end_object", "start_array", "end_array",
          "key"}

\* C20: for every scalar target type and every token kind that is not compatible
\* with it, the continuation built by ParseScalar returns Error with a message and
\* without a continuation, and the target is not written.
C20_MismatchFails ==
    (Called /\ unit.tok.type \in Incompatible(unit.T)) => Failed /\ Untouched

\* Continuations for a string, a bool and a numeric target each refused a token.
C20_Witness ==
    /\ Called
    /\ unit.tok.type \in Incompatible(unit.T)
    /\ unit.T = "bool"
    /\ unit.tok.type = "string"
    /\ Failed

\* C21: ParseString called with a string token, and ParseBool called with a
\* boolean token, assign exactly the token's payload to the target and return
\* ParserDone on that one token.
C21_StringAndBoolStored ==
    (Called /\ \/ unit.T = "string" /\ unit.tok.type = "string"
               \/ unit.T = "bool" /\ unit.tok.type = "boolean") =>
        /\ Done
        /\ unit.res.new_parser = <<>>
        /\ unit.stored = <<unit.tok.value>>
        /\ Target = unit.tok.value

\* ParseString was given the string "12x" and holds it.
C21_Witness ==
    /\ Called
    /\ unit.T = "string"
    /\ unit.tok = JSONToken("string", <<"1", "2", "x">>)
    /\ Done
    /\ Target = <<"1", "2", "x">>

----------------------------------------------------------------------------
(* Properties of the structural continuations, called on their own *)

\* The continuation under call was built by the factory fn and has been called.
DrivenIs(fn) == schema = "drive" /\ unit.parser.fn = fn /\ unit.toks # <<>>

\* Structures opened and not closed by the token kinds in types.
RECURSIVE Balance(_)
Balance(types) ==
    IF types = <<>> THEN 0
    ELSE LET t == types[Len(types)]
             rest == Balance(SubSeq(types, 1, Len(types) - 1))
         IN  IF t \in {"start_object", "start_array"} THEN rest + 1
             ELSE IF t \in {"end_object", "end_array"} THEN rest - 1
             ELSE rest

\* C22: SkipNextElement returns ParserDone on its first token when that token is a
\* scalar; for a subtree opened by start_object or start_array it returns
\* KeepParsing for every token while something is open and ParserDone on the
\* closing token after which nothing is open, on no token before it.
C22_SkipEndsWithItsElement ==
    DrivenIs("SkipNextElement") =>
        \A i \in 1..Len(unit.toks) :
            LET openNow == Balance(SubSeq(unit.toks, 1, i)) IN
            /\ openNow > 0 => unit.results[i] = "KeepParsing"
            /\ openNow = 0 => unit.results[i] = "ParserDone"
            /\ unit.results[i] = "ParserDone" => i = Len(unit.toks) /\ openNow = 0

\* [ { } ] was skipped: KeepParsing three times, ParserDone on the end_array.
C22_Witness ==
    /\ DrivenIs("SkipNextElement")
    /\ unit.toks = <<"start_array", "start_object", "end_object", "end_array">>
    /\ unit.results = <<"KeepParsing", "KeepParsing", "KeepParsing", "ParserDone">>

\* C23: SkipNextElement whose first token is end_object or end_array returns Error
\* with an error message.
C23_LoneClosingTokenFails ==
    (DrivenIs("SkipNextElement") /\ unit.toks[1] \in {"end_object", "end_array"}) =>
        /\ Len(unit.toks) = 1
        /\ unit.res.type = "Error"
        /\ unit.res.error # <<>>
        /\ unit.res.new_parser = <<>>

\* The first token was end_array.
C23_Witness ==
    /\ DrivenIs("SkipNextElement")
    /\ unit.toks = <<"end_array">>
    /\ unit.res.type = "Error"

\* The last call was on token kind ty, and was not the first call.
LaterCallOn(ty) == Len(unit.toks) >= 2 /\ unit.toks[Len(unit.toks)] = ty

\* C26: for a key token the continuation built by ParseObject calls the key handler
\* and returns what the handler returned, unchanged.
C26_HandlerResultVerbatim ==
    (DrivenIs("ParseObject") /\ LaterCallOn("key")) =>
        /\ unit.handled # <<>>
        /\ unit.res = unit.handled[1]

\* The handler asked for a replay into a continuation of its own, and that is
\* what the object continuation returned.
C26_Witness ==
    /\ DrivenIs("ParseObject")
    /\ LaterCallOn("key")
    /\ unit.handled = <<NewParserRepeatToken(UserParser(1))>>
    /\ unit.res.type = "NewParser_ReplayCurrent"

\* C27: the object continuation accepts only this grammar: the first token must be
\* start_object (KeepParsing), anything else is Error; afterwards end_object gives
\* ParserDone, a key goes to the handler, every other token kind gives Error.
C27_ObjectGrammar ==
    DrivenIs("ParseObject") =>
        /\ unit.results[1] = IF unit.toks[1] = "start_object" THEN "KeepParsing" ELSE "Error"
        /\ \A i \in 2..Len(unit.toks) :
              /\ unit.toks[i] = "end_object" => unit.results[i] = "ParserDone"
              /\ unit.toks[i] \notin {"end_object", "key"} => unit.results[i] = "Error"
        /\ unit.res.type = "Error" => unit.res.error # <<>>
        /\ LaterCallOn("key") <=> (Len(unit.toks) >= 2 /\ unit.handled # <<>>)

\* After start_object and a key, a start_array given to the object continuation
\* itself is an error.
C27_Witness ==
    /\ DrivenIs("ParseObject")
    /\ unit.toks = <<"start_object", "key", "start_array">>
    /\ unit.results[3] = "Error"

\* C29: a list continuation whose first token is not start_array returns Error and
\* leaves the collection with exactly the elements it had.
C29_NotAnArrayAppendsNothing ==
    (DrivenIs("ParseList") /\ unit.toks[1] # "start_array") =>
        /\ Len(unit.toks) = 1
        /\ unit.res.type = "Error"
        /\ unit.before \in DriveCollections
        /\ Get(mem, UnitTarget) = unit.before

\* A list that held "x" was given a string first, and still holds just "x".
C29_Witness ==
    /\ DrivenIs("ParseList")
    /\ unit.toks = <<"string">>
    /\ unit.res.type = "Error"
    /\ Get(mem, UnitTarget) = <<<<"x">>>>

----------------------------------------------------------------------------
(* Properties of ParseJson on the documents of the end-to-end schema *)

\* The reader has emitted the whole document.
WholeDocumentRead == schema = "doc" /\ n = Len(input) /\ pc \in {"reader", "returned"}

\* {"id": 42, "name": "x"} and {"name": "x", "id": 42}
TwoScalarDocuments ==
    {Document(o, JSONToken("number_unsigned", Whole(42))) :
        o \in {<<"id", "name">>, <<"name", "id">>}}

\* C11: ParseObject given the tokens start_object, key a, value of a, key b, value
\* of b, end_object, with a key handler that answers each key with ParseScalar of
\* the field of its target argument, ends with ParserDone and leaves both values in
\* the caller's object, the one that was passed to ParseObject.
C11_ValuesReachCallersObject ==
    (WholeDocumentRead /\ input \in TwoScalarDocuments) =>
        /\ last.res = "ParserDone"
        /\ last.id = 1
        /\ mem[0].id = Whole(42)
        /\ mem[0].name = <<"x">>

\* {"id": 42, "name": "x", "tags": ["a", "b"]}
FullDocument == Document(<<"id", "name", "tags">>, JSONToken("number_unsigned", Whole(42)))

\* C12: for the schema id: integer, name: string, tags: list of string and the
\* document {"id": 42, "name": "x", "tags": ["a", "b"]}, ParseJson returns success
\* and the caller's object (which the value-returning form returns) holds id = 42,
\* name = "x", tags = ["a", "b"].
C12_EndToEndFillsTarget ==
    (WholeDocumentRead /\ input = FullDocument /\ result # <<>>) =>
        /\ result = <<"expected">>
        /\ mem[0] = [id |-> Whole(42), name |-> <<"x">>, tags |-> <<<<"a">>, <<"b">>>>]

\* The value of "id" that is a string and not a number.
NotANumber == JSONToken("string", <<"o", "o", "p", "s">>)

\* The position of token t in the document (0: not in it).
PositionOf(t) ==
    IF \E i \in DOMAIN input : input[i] = t
    THEN CHOOSE i \in DOMAIN input : input[i] = t
    ELSE 0

KeyOf(f) ==
    CASE f = "id" -> JSONToken("key", <<"i", "d">>)
      [] f = "name" -> JSONToken("key", <<"n", "a", "m", "e">>)
      [] f = "tags" -> JSONToken("key", <<"t", "a", "g", "s">>)

----------------------------------------------------------------------------
(* Properties of ParseJson on documents with a member the schema does not know *)

AllLayouts == Layouts \cup {Known(l) : l \in Layouts}

Has(layout, f) == \E i \in DOMAIN layout : layout[i] = f

\* parser_stack while the root continuation waits for a key or for end_object.
RootAwaitsKey == <<[At(ParseObject, <<0>>).new_parser[1] EXCEPT !.first = FALSE, !.id = 1]>>

\* C24: when the key handler returns SkipNextElement and the reader then emits a
\* well-formed value (a scalar, an empty or non-empty object or array, nested
\* mixtures), the skip continuation gets every token of the value, says
\* KeepParsing until the last of them and ParserDone on it, and parser_stack is
\* then exactly what it was before the key, so that the next key or end_object
\* goes to the enclosing object continuation.
C24_SkipRestoresStack ==
    \A l \in Layouts, v \in SkippedValues, g \in TagLists :
        (schema = "doc" /\ input = SkipDocument(l, v, g) /\ pc # "idle") =>
            LET key == PositionOf(KeyOther)
                end == key + Len(v)
            IN  /\ n = key - 1 /\ pc # "replay" => parser_stack = RootAwaitsKey
                /\ n = key => /\ last.res = "NewParser"
                              /\ last.id = 1
                              /\ Len(parser_stack) = 2
                              /\ Top.fn = "SkipNextElement"
                /\ (n > key /\ n < end) => /\ last.res = "KeepParsing"
                                           /\ last.id = Top.id
                                           /\ Len(parser_stack) = 2
                                           /\ Top.fn = "SkipNextElement"
                /\ n = end => /\ last.res = "ParserDone"
                              /\ last.id \notin {1, 0}
                              /\ last.below = 1
                              /\ parser_stack = RootAwaitsKey
                /\ n = end + 1 => last.n = n /\ last.id = 1

\* {"a": [{}]} was skipped and the end_object of the document went to the root
\* continuation.
C24_Witness ==
    /\ schema = "doc"
    /\ \E g \in TagLists : \E v \in SkippedValues :
          /\ Len(v) = 7
          /\ input = SkipDocument(<<"tags", "id", "other">>, v, g)
    /\ n = Len(input)
    /\ last.id = 1
    /\ last.res = "ParserDone"
    /\ res = <<>>

\* The objects after the members of layout: the caller's object, and the object
\* that the root continuation holds and hands to the key handler.
AfterMembers(layout, tags) ==
    (0 :> DefaultObject)
    @@ (1 :> [id |-> IF Has(layout, "id") THEN Whole(42) ELSE Whole(0),
              name |-> IF Has(layout, "name") THEN <<"x">> ELSE <<>>,
              tags |-> IF Has(layout, "tags") THEN tags ELSE <<>>])

\* The reader has emitted every member of the document, and not yet its end_object.
MembersRead == schema = "doc" /\ n = Len(input) - 1 /\ pc \in {"reader", "returned"}

\* The token being delivered is the unknown key, or goes to the skip continuation.
SkipDelivery ==
    /\ schema = "doc"
    /\ n' = n + 1
    /\ \/ input[n'] = KeyOther
       \/ parser_stack # <<>> /\ Top.fn = "SkipNextElement"

\* C25: skipping the value of an unknown key writes nothing: no delivery of the
\* unknown key or of a token of its value changes a field of any object, and
\* after the members of the document every field has the value it has after the
\* same document without the unknown member.
C25_SkipWritesNothing ==
    /\ [](\A l \in AllLayouts, v \in SkippedValues \cup {<<>>}, g \in TagLists :
            (MembersRead /\ input = SkipDocument(l, v, g)) =>
                mem = AfterMembers(Known(l), g))
    /\ [][SkipDelivery => mem' = mem]_vars

\* After {"id": 42, "other": [2, [true]], "tags": ["a"], "name": "x"} the fields
\* are those of {"id": 42, "tags": ["a"], "name": "x"}.
C25_Witness ==
    /\ MembersRead
    /\ \E v \in SkippedValues :
          /\ Len(v) = 6
          /\ input = SkipDocument(<<"id", "other", "tags", "name">>, v, <<<<"a">>>>)
    /\ mem[1] = [id |-> Whole(42), name |-> <<"x">>, tags |-> <<<<"a">>>>]

\* C28: ParseList, through ParseToken, over start_array, the tokens of n items,
\* end_array appends exactly n elements to the collection, in the order of the
\* input, each holding its item's value, and ends with ParserDone on the
\* end_array; over start_array, end_array it appends nothing.
C28_ListAppendsItemsInOrder ==
    \A l \in AllLayouts, v \in SkippedValues \cup {<<>>}, g \in TagLists :
        (schema = "doc" /\ input = SkipDocument(l, v, g) /\ Has(l, "tags")
            /\ 1 \in DOMAIN mem) =>
            LET start == PositionOf(KeyOf("tags")) + 1
                end == start + Len(g) + 1
            IN  /\ n <= start => mem[1].tags = <<>>
                /\ (n > start /\ n < end /\ pc # "replay") =>
                        mem[1].tags = SubSeq(g, 1, n - start)
                /\ n >= end => mem[1].tags = g
                /\ n = end => /\ last.res = "ParserDone"
                              /\ last.below = 1
                              /\ parser_stack = RootAwaitsKey

\* The list of {"tags": ["a", "b"], ...} has been read to its end_array.
C28_Witness ==
    /\ schema = "doc"
    /\ \E v \in SkippedValues :
          input = SkipDocument(<<"tags", "id", "other">>, v, <<<<"a">>, <<"b">>>>)
    /\ n = 5
    /\ last.res = "ParserDone"
    /\ mem[1].tags = <<<<"a">>, <<"b">>>>

----------------------------------------------------------------------------
(* Properties of ParseJson on documents with a list of records *)

\* The record that the members of rec describe.
RecordOf(rec) == [id |-> Whole(rec.id), name |-> rec.name, tags |-> <<>>]

\* C30: the variant of ParseList with a key handler per element: after
\* start_array, object 1, ..., object n, end_array, element i of the collection
\* that ParseList was given holds the field values of the i-th object of the
\* input, for every i.
C30_ElementsHoldRecords ==
    \A recs \in RecordLists :
        (schema = "rec" /\ input = RecordsDocument(recs) /\ n = Len(input) - 1
            /\ pc \in {"reader", "returned"}) =>
            /\ last.res = "ParserDone"
            /\ Len(mem[1].items) = Len(recs)
            /\ \A i \in DOMAIN recs : mem[1].items[i] = RecordOf(recs[i])

----------------------------------------------------------------------------
(* Properties that the earlier ones leave open *)

\* C35: ParseJson returns success only if the root continuation has returned
\* ParserDone, that is with parser_stack empty and the whole document read; when
\* the reader stops early and no continuation has failed, ParseJson does not
\* return success.
C35_SuccessOnlyWhenRootDone ==
    (schema = "doc" /\ result = <<"expected">>) =>
        /\ parser_stack = <<>>
        /\ n = Len(input)

\* C36: for schemas built only from the library combinators, between any two
\* token deliveries the depth of parser_stack is at most the number of structural
\* tokens that are open plus one.
C36_DepthBoundBetweenDeliveries ==
    (schema = "lib" /\ pc \in {"reader", "stopped", "returned"}) =>
        Len(parser_stack) <= Len(open) + 1

\* Two structures are open and three continuations are on the stack.
C36_Witness ==
    /\ schema = "lib"
    /\ pc = "reader"
    /\ Len(open) = 2
    /\ Len(parser_stack) = 3
    /\ Top.fn \in {"ParseString", "ParseBool", "ParseNumber"}

\* C38: whenever a continuation of ParseString, ParseBool or ParseNumber returns
\* Error, whatever the token kind and payload, nothing was assigned to the target
\* and it holds the value it had before the call.
C38_FailKeepsTarget ==
    (Called /\ unit.res.type = "Error") =>
        /\ unit.stored = <<>>
        /\ Target = DefaultValue(unit.T)

\* "256" was given to a uint8_t target, which still holds 0.
C38_Witness ==
    /\ Called
    /\ unit.T = "uint8"
    /\ unit.tok = JSONToken("string", <<"2", "5", "6">>)
    /\ unit.res.type = "Error"
    /\ Target = Whole(0)

\* What a continuation may answer to a token that is replayed to it.
NoReplay == {"KeepParsing", "ParserDone", "Error"}

\* The continuations that a list replays its item tokens to: of a scalar, of an
\* object, of a nested list.
ItemParsers ==
    {get_item_parser_func(item, <<>>) : item \in {"object", "string", "bool", "uint8", "double"}}
    \cup {ParseList("uint8").new_parser[1]}

\* C39: for schemas built only from the library combinators a token is delivered
\* at most twice in one callback: only the continuation of ParseList answers with
\* NewParser_ReplayCurrent, and the item continuation that gets the replayed
\* token (of a scalar, an object or a nested list) answers KeepParsing,
\* ParserDone or Error, never NewParser_ReplayCurrent.
C39_OneReplayPerToken ==
    /\ \A c \in ItemParsers, t \in DriveTokens : Call(c, t, KeepParsing).res.type \in NoReplay
    /\ schema = "lib" =>
          /\ Len(chain) <= 2
          /\ pc = "replay" =>
                /\ last.res = "NewParser_ReplayCurrent"
                /\ Len(parser_stack) >= 2
                /\ parser_stack[Len(parser_stack) - 1].fn = "ParseList"
                /\ parser_stack[Len(parser_stack) - 1].id = last.id
          /\ last.res = "NewParser_ReplayCurrent" => ~last.replayed
          /\ last.replayed => last.res \in NoReplay

\* A token was replayed to the item continuation of a list, which took it.
C39_Witness ==
    /\ schema = "lib"
    /\ last.replayed
    /\ Len(chain) = 2
    /\ last.res = "ParserDone"
    /\ prev.res = "NewParser_ReplayCurrent"

\* The error is there exactly for Error, the continuation exactly for NewParser
\* and NewParser_ReplayCurrent.
WellFormed(r) ==
    /\ r.error # <<>> <=> r.type = "Error"
    /\ r.new_parser # <<>> <=> r.type \in {"NewParser", "NewParser_ReplayCurrent"}

\* C31: every ParseResult that the library produces is well-formed: it has an
\* error exactly when its type is Error and a continuation exactly when its type
\* is NewParser or NewParser_ReplayCurrent; this holds for KeepParsing,
\* ParserDone, ParseError, NewParser, NewParserRepeatToken, for what the
\* factories return and for every result of a scalar, skip, object or list
\* continuation.
C31_ResultsWellFormed ==
    /\ \A r \in {KeepParsing, ParserDone, ParseError("Sending out an error"),
                 NewParser(NoParser), NewParserRepeatToken(NoParser)} : WellFormed(r)
    /\ schema = "drive" =>
          /\ WellFormed(unit.res)
          /\ \A i \in DOMAIN unit.made : WellFormed(unit.made[i])
          /\ Called => unit.res.type \in {"KeepParsing", "ParserDone", "Error", "NewParser",
                                          "NewParser_ReplayCurrent"}

\* The continuation of ParseList took start_array and answered the first item
\* with a replay that carries the item's continuation and no error.
C31_Witness ==
    /\ DrivenIs("ParseList")
    /\ unit.results = <<"KeepParsing", "NewParser_ReplayCurrent">>
    /\ unit.res.new_parser # <<>>
    /\ unit.res.error = <<>>

\* The step in which the caller calls the factory.
Building == schema = "drive" /\ unit.made = <<>> /\ unit'.made # <<>>

\* C32: calling ParseScalar, ParseString, ParseBool, ParseNumber, SkipNextElement,
\* ParseObject or ParseList returns a NewParser result with the new continuation
\* and without an error, and the call itself leaves parser_stack, the target and
\* the collection as they were and runs the continuation on no token.
C32_BuildingIsPure ==
    [][Building =>
          /\ unit'.made[1].type = "NewParser"
          /\ unit'.made[1].error = <<>>
          /\ unit'.made[1].new_parser = <<unit'.parser>>
          /\ unit'.parser.fn \in {"ParseString", "ParseBool", "ParseNumber",
                                   "SkipNextElement", "ParseObject", "ParseList"}
          /\ parser_stack' = parser_stack
          /\ mem' = mem
          /\ unit'.toks = <<>>
          /\ unit'.stored = <<>>
      ]_vars

\* ParseList was called for a collection that holds an element, and still does.
C32_Witness ==
    /\ schema = "drive"
    /\ unit.made # <<>>
    /\ unit.toks = <<>>
    /\ unit.parser.fn = "ParseList"
    /\ Get(mem, UnitTarget) = <<<<"x">>>>
    /\ parser_stack = <<>>

\* C33: with a SaxParser built without an error callback, every Error of a
\* continuation ends the parse in DefaultErrorHandler, which throws an exception
\* whose message holds the continuation's message, and no token of the document
\* is delivered after it.
C33_DefaultHandlerAborts ==
    /\ [](/\ (on_error = "DefaultErrorHandler" /\ n >= 1 /\ last.res = "Error") =>
               /\ pc = "thrown"
               /\ last.n = n
               /\ result = <<"thrown", "Failed parsing JSON with the followind error:\n"
                                          \o "Bad JSON item: " \o last.error[1]>>
          /\ pc = "thrown" => on_error = "DefaultErrorHandler" /\ last.res = "Error")
    /\ [][pc = "thrown" => last' = last]_vars

\* The value of "id" was "oops": the exception left ParseJSON before the closing
\* brace was delivered.
C33_Witness ==
    /\ on_error = "DefaultErrorHandler"
    /\ pc = "thrown"
    /\ n = 3
    /\ n < Len(input)
    /\ result = <<"thrown", "Failed parsing JSON with the followind error:\n"
                               \o "Bad JSON item: Failed parsing integer">>

\* C37: when a ParseJSON call starts, parser_stack holds the root continuation of
\* that call and nothing else, also on a SaxParser whose earlier call failed or
\* stopped early, and no token of the call goes to a continuation that an
\* earlier call left behind.
C37_StackHoldsOnlyTheRoot ==
    /\ (pc = "reader" /\ n = 0) => Ids(parser_stack) = <<unit.root>>
    /\ (pc # "idle" /\ n >= 1) => last.id >= unit.root

\* The color of the action that the root continuation holds.
Color == Get(mem, <<parser_stack[1].id, "color">>)

\* C34: ParseRGB, given through the dispatcher the array form of three integers
\* in range, sets r, g and b to the three items in their order, returns no
\* Error, and when the array has ended parser_stack holds the entries it held
\* before the key of the color was delivered.
C34_ArrayFormSetsChannels ==
    (schema = "rgb" /\ Len(input) = 8 /\ n >= 1) =>
        /\ last.res # "Error"
        /\ (n = 7 /\ pc = "reader") =>
              /\ Len(parser_stack) = 1
              /\ Color = [r |-> input[4].value, g |-> input[5].value, b |-> input[6].value]

====
